---------------------------- MODULE Spec2Model ----------------------------
(***************************************************************************)
(* A model of the asynchronous pipelines of the Vidly backend:             *)
(*                                                                         *)
(*   - the classification worker pool (processWithWorkerPool) of           *)
(*     src/src/services/sentiment.service.ts, under PoolSpec/FairPoolSpec; *)
(*   - the video analysis graph (buildAnalysisGraph /                      *)
(*     executeAnalysisWorkflow), under GraphSpec/FairGraphSpec;            *)
(*   - the validation graph (buildValidationGraph / validateIdeaService)   *)
(*     of src/unnamed/part_009, under ValSpec/FairValSpec;                 *)
(*   - barrierNode as a function of an arbitrary AgentState, under         *)
(*     BarrierSpec.                                                        *)
(*   - IdeaValidatorController.validateIdea and its StreamWriter           *)
(*     (src/unnamed/part_000, part_002), under StreamSpec/FairStreamSpec;  *)
(*   - processVideoAnalysis (src/src/workers/video.worker.ts) with the     *)
(*     progress events of the analysis graph, under JobSpec.               *)
(*   - processWithWorkerPool called with a jobId, under PoolJobSpec;       *)
(*   - calculateOptimalBatching, the batch loop of classifyCommentsNode,   *)
(*     separateCommentsNode and calculateSummaryNode as functions of one   *)
(*     input, under PureSpec;                                              *)
(*   - APIKeyRotator, under KeySpec;                                       *)
(*   - YouTubeService.fetchAllComments (src/unnamed/part_007), under       *)
(*     FetchSpec;                                                          *)
(*   - the tool loops of the validation agents alone, under AgentLoopSpec; *)
(*   - YouTubeService.fetchTranscript, under TranscriptSpec and            *)
(*     FairTranscriptSpec;                                                 *)
(*   - several video jobs in processWithWorkerPool at once, under          *)
(*     VideoJobsSpec;                                                      *)
(*   - featureRateLimiter                                                  *)
(*     (src/src/middleware/rate-limiter.middleware.ts), under LimiterSpec. *)
(*                                                                         *)
(* JavaScript runs one continuation at a time: the code between two        *)
(* awaits is one atomic step.  Every action below is one such              *)
(* continuation.                                                           *)
(***************************************************************************)
EXTENDS Integers, Sequences, FiniteSets, TLC

VARIABLES
  \* ---- processWithWorkerPool ----
  phase,             \* which subsystem this behaviour runs, and how far it is
  numWorkers,        \* maxConcurrentWorkers
  totalBatches,      \* allBatches.length
  jobQueue,          \* the shared BatchJob queue
  wpc,               \* per worker: "start" | "await" | "exited"
  inFlight,          \* per worker: the BatchJob handed to processSingleBatch
  allResults,        \* the result list, kept as its length (the labels are the LLM's)
  completedBatches,
  failedBatches,
  classifyOutcome,   \* what classifyCommentsNode did: "none" | "returned" | "threw"
  \* history of the pool (not program state)
  claimCount,        \* job ever queued -> times handed to processSingleBatch
  succeededJobs,     \* jobs whose classification succeeded
  failedJobs,        \* jobs counted as permanently failed
  poolJobId,         \* the jobId argument of processWithWorkerPool
  poolVideoId,       \* its videoId argument
  batchEvents,       \* the per-batch progress events it emitted
  \* ---- the graph runtime (one compiled StateGraph being invoked) ----
  gphase,            \* "idle" | "running" | "done" | "failed"
  task,              \* per node: "idle" | "ready" | "await" | "finished" | "threw"
  pending,           \* per node: the update it returned in this superstep
  started,           \* history: per node, how often it was called
  finished,          \* history: per node, how often it returned
  \* ---- executeAnalysisWorkflow ----
  numComments,       \* comments.length
  hasTranscript,
  astate,            \* the AnalysisState channels
  llmFailed,         \* history: the insight nodes whose LLM call rejected
  wfResult,          \* what executeAnalysisWorkflow returned
  \* ---- validateIdeaService ----
  svc,               \* validateIdeaService: "idle" | "running" | "returned" | "rejected"
  vstate,            \* the AgentState channels
  apc,               \* per agent, while awaiting: "llm" | "tool" | "synth"
  loopI,             \* per agent: i of the tool loop
  toolsLeft,         \* per agent: tool calls of the current response not yet made
  callFailed,        \* history: the agents one of whose calls rejected
  barrierInput,      \* history: the state barrierNode was given
  barrierOutcome,    \* history: what barrierNode did with it
  \* ---- IdeaValidatorController.validateIdea and its StreamWriter ----
  ctl,               \* "idle" | "badRequest" | "awaitService" | "done"
  sw,                \* the StreamWriter and the response it writes to
  inv,               \* graph.invoke: "none" | "agents" | "barrier" | "supervisor"
                     \*               | "resolved" | "rejected"
  apos,              \* per agent: "ready" | "running" | "returned" | "threw"
  agentWrites,       \* log lines written from the agents' tool loops
  errMsg,            \* the message of the error the service rejected with
  exitPath,          \* history: "none" | "success" | "failure"
  \* ---- processVideoAnalysis ----
  jobId,             \* the jobId the workflow was given, or Undefined
  jpc,               \* "start" | "awaitProgress10" | "awaitFetch" | "awaitProgress40"
                     \* | "awaitWorkflow" | "awaitProgress100" | "returned" | "threw"
  commentsRes,       \* fetchAllComments: "pending" | "rejected" | "fulfilled"
  transcriptRes,     \* fetchTranscript: "pending" | "rejected" | "unavailable" | "available"
  wfArgs,            \* what executeAnalysisWorkflow was called with
  prog,              \* the progress events emitted: their number, the last one's
                     \* percentage and stage, and whether a percentage ever fell
  errorEvents,       \* the error events emitted, each with the number of progress
                     \* events emitted before it
  completionEvents,  \* the completion events emitted, likewise
  thrown,            \* the message of the error processVideoAnalysis threw
  returned,          \* what processVideoAnalysis returned
  \* ---- the pure functions of the analysis, applied to one input ----
  pureFn,            \* "batching" | "separate": what the input is given to
  pureArg,           \* the input: totalComments, or the classified comments
  pureStep,          \* how many of the functions were applied
  pureOut,           \* what they returned
  \* ---- APIKeyRotator (one per process) ----
  keyCount,          \* API_KEYS.length
  currentIndex,      \* the rotation cursor
  handedKeys,        \* history: the getNextKey calls, in order: caller and key
  workerKey,         \* per pool worker: its apiKey, or Undefined before it started
  keyUses,           \* history: per pool worker, the keys its batches were sent with
  \* ---- YouTubeService.fetchAllComments ----
  fpc,               \* "request" | "delay" | "returned" | "threw"
  totalPages,        \* how many pages of comments the video has
  pageToken,         \* Undefined, or the number of the page it names
  retries,
  fetchedPages,      \* the pages whose items were pushed to comments
  requestLog,        \* history: the requests made: page and HTTP status
  delays,            \* history: the delays waited, in units of 2000 ms
  fetchError,        \* the message of the error fetchAllComments threw
  \* ---- YouTubeService.fetchTranscript ----
  tpc,               \* "load" | "chunking" | "awaitBatch" | "awaitMerge" | "returned"
  transcriptLen,     \* fullTranscript.length
  startIndex,
  chunks,            \* the chunks, each kept as the range it was sliced from
  chunkResults,      \* per chunk: what its summarization call of the batch gave
  batchI,            \* i of the summaries loop
  summaries,
  transcriptOut,     \* what fetchTranscript resolved to
  tHist,             \* history: what the loader did, the chunks whose call
                     \* rejected, whether the merge call rejected
  \* ---- concurrent video jobs, each calling processWithWorkerPool ----
  videoPc,           \* per video job: "queued" | "running" | "returned"
  pools,             \* per call of processWithWorkerPool: its jobQueue, allResults,
                     \* completedBatches and failedBatches
  poolWorkers,       \* per call and worker: "await" | "exited", and its BatchJob
  videoResult,       \* per video job: what processWithWorkerPool returned
  \* ---- featureRateLimiter, for one user and feature ----
  rlCount,           \* the value of the key in Redis, 0 when there is none
  rlExpires,         \* whether the key has an expiry
  rlReq,             \* per request: where its handler is
  rlIncrements,      \* history: the requests that incremented the key since it
                     \* was created
  rlErrors           \* history: whether a Redis call rejected

poolVars == <<phase, numWorkers, totalBatches, jobQueue, wpc, inFlight, allResults,
              completedBatches, failedBatches, classifyOutcome,
              claimCount, succeededJobs, failedJobs,
              poolJobId, poolVideoId, batchEvents>>

graphVars == <<gphase, task, pending, started, finished>>

wfVars == <<numComments, hasTranscript, astate, llmFailed, wfResult>>

valVars == <<svc, vstate, apc, loopI, toolsLeft, callFailed, barrierInput,
             barrierOutcome>>

streamVars == <<ctl, sw, inv, apos, agentWrites, errMsg, exitPath>>

jobCtlVars == <<jobId, jpc, commentsRes, transcriptRes, wfArgs, errorEvents,
                completionEvents, thrown, returned>>

jobVars == <<jobCtlVars, prog>>

pureVars == <<pureFn, pureArg, pureStep, pureOut>>

keyVars == <<keyCount, currentIndex, handedKeys, workerKey, keyUses>>

fetchVars == <<fpc, totalPages, pageToken, retries, fetchedPages, requestLog,
               delays, fetchError>>

transcriptVars == <<tpc, transcriptLen, startIndex, chunks, chunkResults, batchI,
                    summaries, transcriptOut, tHist>>

videoJobVars == <<videoPc, pools, poolWorkers, videoResult>>

limiterVars == <<rlCount, rlExpires, rlReq, rlIncrements, rlErrors>>

moreVars == <<transcriptVars, videoJobVars, limiterVars>>

restVars == <<pureVars, keyVars, fetchVars, moreVars>>

vars == <<poolVars, graphVars, wfVars, valVars, streamVars, jobVars, restVars>>

\* What each subsystem leaves alone.
notPool == <<graphVars, wfVars, valVars, streamVars, jobVars, restVars>>
notWf == <<poolVars, valVars, streamVars, jobCtlVars, restVars>>
notVal == <<poolVars, wfVars, streamVars, jobVars, restVars>>
notStream == <<poolVars, graphVars, wfVars, valVars, jobVars, restVars>>

(***************************************************************************)
(* Bounds of the model.                                                    *)
(***************************************************************************)
MaxBatches == 2
MaxWorkers == 2
MaxComments == 55
MaxClassified == 2
MaxToolCalls == 1
MaxTotalComments == 10000
MaxListLen == 3
MaxKeys == 3
MaxKeyCalls == 4
MaxKeyUses == 2
MaxPages == 3
MaxUpdates == 5
MaxTranscript == 37000
MaxVideoJobs == 2
MaxPoolWorkers == 2
MaxClients == 3

(***************************************************************************)
(* Program constants.                                                      *)
(***************************************************************************)
Undefined == "undefined"

SplitMinLen == 10     \* job.batch.length > 10
MaxRetry == 2         \* job.retryCount < 2

\* The batch lengths the inputs are drawn from: at the size floor, just above it
\* (one split reaches the floor), and large enough to be split twice with
\* every quarter still above the floor.
BatchLens == {SplitMinLen, SplitMinLen + 1, 4 * (SplitMinLen + 1)}

\* How many labels the LLM may return for a batch of n comments
\* (validated.results is whatever the model answered: BatchSentimentSchema
\* is z.array(CommentSentimentSchema), of any length).
ReplyLens(n) == {n - 1, n, n + 1}

WorkerIds == 0 .. (MaxWorkers - 1)     \* every id a worker can have
Workers == 0 .. (numWorkers - 1)

NoJob == [first |-> 0, last |-> 0, batchNumber |-> 0, retryCount |-> 0]

\* A batch is a slice of the comments array, kept as its first and last index.
BatchLen(job) == job.last - job.first + 1

RECURSIVE SumSeq(_)
SumSeq(s) == IF s = <<>> THEN 0 ELSE Head(s) + SumSeq(Tail(s))

CeilDiv(a, b) == (a + b - 1) \div b

SeqSet(s) == {s[i] : i \in DOMAIN s}

\* allBatches.map((batch, idx) => ({batch, batchNumber: idx + 1, ..., retryCount: 0}))
RECURSIVE InitialQueue(_, _)
InitialQueue(lens, start) ==
  IF lens = <<>> THEN <<>>
  ELSE <<[first |-> start, last |-> start + Head(lens) - 1,
          batchNumber |-> 0, retryCount |-> 0]>>
       \o InitialQueue(Tail(lens), start + Head(lens))

NumberJobs(q) == [i \in DOMAIN q |-> [q[i] EXCEPT !.batchNumber = i]]

\* The catch branch's test: split and retry, or give up.
ShouldSplit_NoRetryBound(job) == BatchLen(job) > SplitMinLen
ShouldSplit_OffByOne(job) == BatchLen(job) >= SplitMinLen /\ job.retryCount < MaxRetry
ShouldSplit(job) == BatchLen(job) > SplitMinLen /\ job.retryCount < MaxRetry

\* halfSize = Math.ceil(job.batch.length / 2); slice(0, halfSize), slice(halfSize)
HalfSize(job) == CeilDiv(BatchLen(job), 2)
FirstHalf(job) == [job EXCEPT !.last = job.first + HalfSize(job) - 1,
                              !.retryCount = job.retryCount + 1]
SecondHalf_FromLastOfFirst(job) ==
  [job EXCEPT !.first = job.first + HalfSize(job) - 1,
              !.retryCount = job.retryCount + 1]
SecondHalf(job) == [job EXCEPT !.first = job.first + HalfSize(job),
                               !.retryCount = job.retryCount + 1]

\* The queue after the catch branch: jobQueue.push(firstHalf, secondHalf), or unchanged.
QueueAfterFailure(job, q) ==
  IF ShouldSplit(job) THEN q \o <<FirstHalf(job), SecondHalf(job)>> ELSE q

\* claimCount extended to the jobs of q, with job j (if any) claimed once more.
Claimed(q, j) ==
  [x \in DOMAIN claimCount \cup SeqSet(q) |->
     (IF x \in DOMAIN claimCount THEN claimCount[x] ELSE 0) + (IF x = j THEN 1 ELSE 0)]

\* The top of the worker's loop, run without suspension on the queue q:
\*   while (jobQueue.length > 0) { const job = jobQueue.shift(); ... await processSingleBatch(job)
\* or, on an empty queue, the worker's exit.
LoopTop_NoRemove(w, q) ==
  IF Len(q) > 0
  THEN /\ jobQueue' = q
       /\ inFlight' = [inFlight EXCEPT ![w] = Head(q)]
       /\ wpc' = [wpc EXCEPT ![w] = "await"]
       /\ claimCount' = Claimed(q, Head(q))
  ELSE /\ jobQueue' = q
       /\ inFlight' = [inFlight EXCEPT ![w] = NoJob]
       /\ wpc' = [wpc EXCEPT ![w] = "exited"]
       /\ claimCount' = Claimed(q, NoJob)
LoopTop(w, q) ==
  IF Len(q) > 0
  THEN /\ jobQueue' = Tail(q)
       /\ inFlight' = [inFlight EXCEPT ![w] = Head(q)]
       /\ wpc' = [wpc EXCEPT ![w] = "await"]
       /\ claimCount' = Claimed(q, Head(q))
  ELSE /\ jobQueue' = q
       /\ inFlight' = [inFlight EXCEPT ![w] = NoJob]
       /\ wpc' = [wpc EXCEPT ![w] = "exited"]
       /\ claimCount' = Claimed(q, NoJob)

\* The values of the variables of a subsystem that a behaviour does not run.
PoolUnused ==
  /\ phase = "unused"
  /\ poolJobId = Undefined
  /\ poolVideoId = Undefined
  /\ batchEvents = <<>>
  /\ numWorkers = 0
  /\ totalBatches = 0
  /\ jobQueue = <<>>
  /\ wpc = <<>>
  /\ inFlight = <<>>
  /\ allResults = 0
  /\ completedBatches = 0
  /\ failedBatches = 0
  /\ classifyOutcome = "none"
  /\ claimCount = <<>>
  /\ succeededJobs = {}
  /\ failedJobs = {}

GraphUnused ==
  /\ gphase = "unused"
  /\ task = <<>>
  /\ pending = <<>>
  /\ started = <<>>
  /\ finished = <<>>

WfUnused ==
  /\ numComments = 0
  /\ hasTranscript = FALSE
  /\ astate = <<>>
  /\ llmFailed = {}
  /\ wfResult = <<>>

ValUnused ==
  /\ svc = "unused"
  /\ vstate = <<>>
  /\ apc = <<>>
  /\ loopI = <<>>
  /\ toolsLeft = <<>>
  /\ callFailed = {}
  /\ barrierInput = <<>>
  /\ barrierOutcome = <<>>

StreamUnused ==
  /\ ctl = "unused"
  /\ sw = <<>>
  /\ inv = "none"
  /\ apos = <<>>
  /\ agentWrites = 0
  /\ errMsg = ""
  /\ exitPath = "none"

NoProgress == [count |-> 0, last |-> 0, stage |-> "none", fell |-> FALSE]

JobUnused ==
  /\ jobId = "undefined"
  /\ jpc = "unused"
  /\ commentsRes = "pending"
  /\ transcriptRes = "pending"
  /\ wfArgs = <<>>
  /\ prog = NoProgress
  /\ errorEvents = <<>>
  /\ completionEvents = <<>>
  /\ thrown = ""
  /\ returned = <<>>

PureUnused ==
  /\ pureFn = "unused"
  /\ pureArg = 0
  /\ pureStep = 0
  /\ pureOut = <<>>

KeyUnused ==
  /\ keyCount = 0
  /\ currentIndex = 0
  /\ handedKeys = <<>>
  /\ workerKey = <<>>
  /\ keyUses = <<>>

FetchUnused ==
  /\ fpc = "unused"
  /\ totalPages = 0
  /\ pageToken = Undefined
  /\ retries = 0
  /\ fetchedPages = <<>>
  /\ requestLog = <<>>
  /\ delays = <<>>
  /\ fetchError = ""

NoTranscriptOut == [text |-> [kind |-> "none", len |-> 0, parts |-> <<>>],
                    available |-> FALSE]
NoTranscriptHist == [load |-> "none", chunkFailed |-> {}, mergeFailed |-> FALSE]

TranscriptUnused ==
  /\ tpc = "unused"
  /\ transcriptLen = 0
  /\ startIndex = 0
  /\ chunks = <<>>
  /\ chunkResults = <<>>
  /\ batchI = 0
  /\ summaries = <<>>
  /\ transcriptOut = NoTranscriptOut
  /\ tHist = NoTranscriptHist

VideoJobsUnused ==
  /\ videoPc = <<>>
  /\ pools = <<>>
  /\ poolWorkers = <<>>
  /\ videoResult = <<>>

LimiterUnused ==
  /\ rlCount = 0
  /\ rlExpires = FALSE
  /\ rlReq = <<>>
  /\ rlIncrements = {}
  /\ rlErrors = FALSE

MoreUnused == TranscriptUnused /\ VideoJobsUnused /\ LimiterUnused

RestUnused == PureUnused /\ KeyUnused /\ FetchUnused /\ MoreUnused

\* What classifyCommentsNode passes as jobId and as videoId.
ClassifyJobIdArg == Undefined
ClassifyVideoIdArg == "video-1"

\* if (jobId && videoId)
EmitsBatchProgress(jid, vid) == jid # Undefined /\ vid # Undefined

\* baseProgress + Math.floor((completedBatches / totalBatches) * progressRange)
BatchPercentage(completed, total) == 40 + ((completed * 20) \div total)

PoolInitWith(jid) ==
  /\ RestUnused
  /\ poolJobId = jid
  /\ poolVideoId = ClassifyVideoIdArg
  /\ batchEvents = <<>>
  /\ JobUnused
  /\ StreamUnused
  /\ phase = "pool"
  /\ numWorkers \in 1 .. MaxWorkers
  /\ totalBatches \in 1 .. MaxBatches
  /\ \E lens \in [1 .. totalBatches -> BatchLens] :
       /\ SumSeq(lens) <= MaxComments
       /\ jobQueue = NumberJobs(InitialQueue(lens, 1))
  /\ wpc = [w \in Workers |-> "start"]
  /\ inFlight = [w \in Workers |-> NoJob]
  /\ allResults = 0
  /\ completedBatches = 0
  /\ failedBatches = 0
  /\ classifyOutcome = "none"
  /\ claimCount = [j \in SeqSet(jobQueue) |-> 0]
  /\ succeededJobs = {}
  /\ failedJobs = {}
  /\ GraphUnused
  /\ WfUnused
  /\ ValUnused

\* processWithWorkerPool as classifyCommentsNode calls it.
PoolInit == PoolInitWith(ClassifyJobIdArg)

\* processWithWorkerPool called with its optional jobId parameter given.
PoolWithJobIdInit == PoolInitWith("job-1")

\* Array.from({length: maxConcurrentWorkers}, (_, i) => worker(i)): worker i runs
\* to its first await (or exits) before worker i+1 is called, and no LLM call
\* resolves before all of them were called.
AllStarted == \A v \in Workers : wpc[v] # "start"

WorkerStart(w) ==
  /\ phase = "pool"
  /\ wpc[w] = "start"
  /\ \A v \in Workers : v < w => wpc[v] # "start"
  /\ LoopTop(w, jobQueue)
  /\ UNCHANGED <<poolJobId, poolVideoId, batchEvents>>
  /\ UNCHANGED notPool
  /\ UNCHANGED <<phase, numWorkers, totalBatches, allResults, completedBatches,
                 failedBatches, classifyOutcome, succeededJobs, failedJobs>>

\* processSingleBatch resolved: push the labels, count the batch, loop.
BatchSucceeds(w) ==
  /\ phase = "pool"
  /\ AllStarted
  /\ wpc[w] = "await"
  /\ \E n \in ReplyLens(BatchLen(inFlight[w])) :
       allResults' = allResults + n          \* allResults.push(...results)
  /\ completedBatches' = completedBatches + 1
  /\ succeededJobs' = succeededJobs \cup {inFlight[w]}
  /\ LoopTop(w, jobQueue)
  /\ batchEvents' =
       IF EmitsBatchProgress(poolJobId, poolVideoId)
       THEN Append(batchEvents,
                   [batchNumber |-> completedBatches + 1,
                    percentage |-> BatchPercentage(completedBatches + 1, totalBatches)])
       ELSE batchEvents
  /\ UNCHANGED <<poolJobId, poolVideoId>>
  /\ UNCHANGED notPool
  /\ UNCHANGED <<phase, numWorkers, totalBatches, failedBatches, classifyOutcome,
                 failedJobs>>

\* processSingleBatch rejected: the catch branch, then loop.
BatchFails_Uncounted(w) ==
  /\ phase = "pool"
  /\ AllStarted
  /\ wpc[w] = "await"
  /\ failedJobs' = IF ShouldSplit(inFlight[w]) THEN failedJobs
                   ELSE failedJobs \cup {inFlight[w]}
  /\ LoopTop(w, QueueAfterFailure(inFlight[w], jobQueue))
  /\ UNCHANGED <<poolJobId, poolVideoId, batchEvents>>
  /\ UNCHANGED notPool
  /\ UNCHANGED <<phase, numWorkers, totalBatches, allResults, completedBatches,
                 failedBatches, classifyOutcome, succeededJobs>>
BatchFails(w) ==
  /\ phase = "pool"
  /\ AllStarted
  /\ wpc[w] = "await"
  /\ failedBatches' = IF ShouldSplit(inFlight[w]) THEN failedBatches
                      ELSE failedBatches + 1
  /\ failedJobs' = IF ShouldSplit(inFlight[w]) THEN failedJobs
                   ELSE failedJobs \cup {inFlight[w]}
  /\ LoopTop(w, QueueAfterFailure(inFlight[w], jobQueue))
  /\ UNCHANGED <<poolJobId, poolVideoId, batchEvents>>
  /\ UNCHANGED notPool
  /\ UNCHANGED <<phase, numWorkers, totalBatches, allResults, completedBatches,
                 classifyOutcome, succeededJobs>>

\* await Promise.all(workers) resolved: return allResults; classifyCommentsNode
\* returns {classifiedComments: allClassified} (it only warns below 95%).
PoolReturns_Eager ==
  /\ phase = "pool"
  /\ \E w \in Workers : wpc[w] = "exited"
  /\ phase' = "returned"
  /\ classifyOutcome' = "returned"
  /\ UNCHANGED <<poolJobId, poolVideoId, batchEvents>>
  /\ UNCHANGED notPool
  /\ UNCHANGED <<numWorkers, totalBatches, jobQueue, wpc, inFlight, allResults,
                 completedBatches, failedBatches, claimCount, succeededJobs, failedJobs>>
PoolReturns ==
  /\ phase = "pool"
  /\ \A w \in Workers : wpc[w] = "exited"
  /\ phase' = "returned"
  /\ classifyOutcome' = "returned"
  /\ UNCHANGED <<poolJobId, poolVideoId, batchEvents>>
  /\ UNCHANGED notPool
  /\ UNCHANGED <<numWorkers, totalBatches, jobQueue, wpc, inFlight, allResults,
                 completedBatches, failedBatches, claimCount, succeededJobs, failedJobs>>

PoolNext ==
  \/ \E w \in Workers : WorkerStart(w)
  \/ \E w \in Workers : BatchSucceeds(w)
  \/ \E w \in Workers : BatchFails(w)
  \/ PoolReturns

PoolSpec == PoolInit /\ [][PoolNext]_vars

\* Every LLM call eventually returns or fails; started workers and the
\* Promise.all continuation are scheduled.
PoolFairness ==
  /\ \A w \in WorkerIds : WF_vars(w \in Workers /\ (BatchSucceeds(w) \/ BatchFails(w)))
  /\ \A w \in WorkerIds : WF_vars(w \in Workers /\ WorkerStart(w))
  /\ WF_vars(PoolReturns)

FairPoolSpec == PoolInit /\ [][PoolNext]_vars /\ PoolFairness

PoolJobSpec == PoolWithJobIdInit /\ [][PoolNext]_vars

(***************************************************************************)
(* Claims about the worker pool.                                           *)
(***************************************************************************)
EverQueued == DOMAIN claimCount

RECURSIVE SumClaims(_)
SumClaims(S) ==
  IF S = {} THEN 0
  ELSE LET j == CHOOSE x \in S : TRUE IN claimCount[j] + SumClaims(S \ {j})

\* The classification attempts made for original batch b and its split halves.
Attempts(b) == SumClaims({j \in EverQueued : j.batchNumber = b})
PermanentlyFailed(b) == {j \in failedJobs : j.batchNumber = b}

\* C1: every job ever placed in the queue (original or split half) is handed to
\* processSingleBatch at most once, a job still queued has not been handed out,
\* two workers never hold the same job, and when the pool has returned every
\* job ever queued has been handed out exactly once.
C1_ExactlyOnceClaim ==
  /\ \A j \in EverQueued : claimCount[j] <= 1
  /\ \A i \in DOMAIN jobQueue : claimCount[jobQueue[i]] = 0
  /\ \A v, w \in Workers :
       (v # w /\ wpc[v] = "await" /\ wpc[w] = "await") => inFlight[v] # inFlight[w]
  /\ phase = "returned" => \A j \in EverQueued : claimCount[j] = 1

\* C1 witness: a pool of two or more workers has returned after claiming the
\* seven jobs of a batch that was split twice.
C1_Witness ==
  /\ phase = "returned"
  /\ numWorkers >= 2
  /\ \E b \in 1 .. totalBatches :
       /\ Attempts(b) = 7
       /\ \E j \in EverQueued : j.batchNumber = b /\ j.retryCount = 2

\* C2: no job ever has retryCount above 2, one original batch yields at most 4
\* permanently failed sub-batches and at most 7 classification attempts, and the
\* pool always returns (also when every attempt fails): there is no endless
\* requeue loop.
C2_RetryBound ==
  /\ [](/\ \A j \in EverQueued : j.retryCount <= 2
        /\ \A b \in 1 .. totalBatches :
             /\ Cardinality(PermanentlyFailed(b)) <= 4
             /\ Attempts(b) <= 7)
  /\ <>(phase = "returned")

\* C2 witness: every attempt failed, and one original batch ended as 4
\* permanently failed quarters after 7 attempts.
C2_Witness ==
  /\ phase = "returned"
  /\ completedBatches = 0
  /\ \E b \in 1 .. totalBatches :
       /\ Cardinality(PermanentlyFailed(b)) = 4
       /\ Attempts(b) = 7

\* C3: a failed classification splits the job iff it has more than 10 comments
\* and retryCount < 2; then both halves go to the back of the same queue with
\* retryCount + 1 and failedBatches is unchanged; otherwise nothing is queued
\* and failedBatches grows by one.  (The failing worker at once takes the head
\* of the queue, so the queue is compared with that job put back in front.)
C3_SplitOrGiveUp ==
  [][\A w \in WorkerIds :
       (w \in Workers /\ BatchFails(w)) =>
         LET job == inFlight[w]
             after == IF wpc'[w] = "await" THEN <<inFlight'[w]>> \o jobQueue'
                      ELSE jobQueue'
         IN IF job.last - job.first + 1 > 10 /\ job.retryCount < 2
            THEN /\ Len(after) = Len(jobQueue) + 2
                 /\ SubSeq(after, 1, Len(jobQueue)) = jobQueue
                 /\ LET h1 == after[Len(jobQueue) + 1]
                        h2 == after[Len(jobQueue) + 2]
                    IN /\ h1.retryCount = job.retryCount + 1
                       /\ h2.retryCount = job.retryCount + 1
                       /\ h1.batchNumber = job.batchNumber
                       /\ h2.batchNumber = job.batchNumber
                       /\ h1.first = job.first /\ h1.last + 1 = h2.first
                       /\ h2.last = job.last
                       /\ h1.first <= h1.last /\ h2.first <= h2.last
                 /\ failedBatches' = failedBatches
            ELSE /\ after = jobQueue
                 /\ failedBatches' = failedBatches + 1
                 /\ DOMAIN claimCount' = DOMAIN claimCount]_vars

\* C3 witness: one run gave up on a batch of at most 10 comments and on a
\* batch of more than 10 comments that had been split twice, after splitting.
C3_Witness ==
  /\ \E j \in failedJobs : BatchLen(j) <= 10 /\ j.retryCount = 0
  /\ \E j \in failedJobs : BatchLen(j) > 10 /\ j.retryCount = 2
  /\ failedBatches = Cardinality(failedJobs)

\* C4: the pool returns only when the queue is empty, every worker has exited
\* and no batch is in flight; and, every LLM call returning or failing, it
\* always gets there.
C4_ReturnsWhenDrained ==
  /\ [](phase = "returned" =>
          /\ jobQueue = <<>>
          /\ \A w \in Workers : wpc[w] = "exited" /\ inFlight[w] = NoJob)
  /\ <>(phase = "returned")

\* C4 witness: a worker has already exited on an empty queue while a split
\* half, re-queued later by another worker, is waiting in the queue.
C4_Witness ==
  /\ phase = "pool"
  /\ \E v \in Workers : wpc[v] = "exited"
  /\ \E w \in Workers : wpc[w] = "await"
  /\ \E i \in DOMAIN jobQueue : jobQueue[i].retryCount > 0

\* C5: the classification stage reports an error to its caller exactly when
\* every batch permanently failed; with at least one successful batch it
\* returns normally.
C5_AllFailedIsAnError ==
  classifyOutcome # "none" =>
    (classifyOutcome = "threw" <=> completedBatches = 0)

(***************************************************************************)
(* The graph runtime.  A compiled StateGraph runs in supersteps: the nodes  *)
(* triggered by the previous superstep are all called, the runtime waits    *)
(* for every one of them, applies the updates they returned to the          *)
(* channels, and triggers the targets of their outgoing edges.  A node that *)
(* throws makes invoke() reject.                                            *)
(***************************************************************************)
StartNode == "__start__"
EndNode == "__end__"

NoUpdate == <<>>

\* The nodes an edge leads to from one of the nodes in from.
Triggered(edges, from) == {e[2] : e \in {x \in edges : x[1] \in from}} \ {EndNode}

\* A channel declared null keeps the last value written to it.
ApplyUpdate(st, upd) ==
  [f \in DOMAIN st |-> IF f \in DOMAIN upd THEN upd[f] ELSE st[f]]

RECURSIVE ApplyAll(_, _, _)
ApplyAll(st, upds, nodes) ==
  IF nodes = {} THEN st
  ELSE LET n == CHOOSE x \in nodes : TRUE
       IN ApplyAll(ApplyUpdate(st, upds[n]), upds, nodes \ {n})

\* Two nodes of one superstep wrote the same last-value channel.
WriteConflict(upds, nodes) ==
  \E m, n \in nodes : m # n /\ DOMAIN upds[m] \cap DOMAIN upds[n] # {}

FinishedNow == {n \in DOMAIN task : task[n] = "finished"}
ThrewNow == {n \in DOMAIN task : task[n] = "threw"}
Scheduled == {n \in DOMAIN task : task[n] # "idle"}

\* A node's function returned update upd.
NodeReturns(n, upd) ==
  /\ task' = [task EXCEPT ![n] = "finished"]
  /\ pending' = [pending EXCEPT ![n] = upd]
  /\ finished' = [finished EXCEPT ![n] = @ + 1]

\* A node's function threw.
NodeThrows(n) ==
  /\ task' = [task EXCEPT ![n] = "threw"]
  /\ pending' = pending
  /\ finished' = finished

(***************************************************************************)
(* The video analysis graph.                                               *)
(***************************************************************************)
InsightNodes == {"analyze_emotions", "analyze_patterns", "analyze_loved",
                 "analyze_improvements", "analyze_wantMore"}
AnalysisNodes == {"classify", "separate", "summarize"} \cup InsightNodes

\* workflow.addEdge(...)
AnalysisEdges_ExtraEdge ==
  {<<StartNode, "classify">>, <<"classify", "separate">>,
   <<"separate", "summarize">>}
  \cup {<<"separate", n>> : n \in InsightNodes}
  \cup {<<n, "summarize">> : n \in InsightNodes}
  \cup {<<"summarize", EndNode>>}
AnalysisEdges ==
  {<<StartNode, "classify">>, <<"classify", "separate">>}
  \cup {<<"separate", n>> : n \in InsightNodes}
  \cup {<<n, "summarize">> : n \in InsightNodes}
  \cup {<<"summarize", EndNode>>}

\* A classified comment: its label, and whether its text holds one of the
\* markers analyzeImprovementsNode looks for ("but", "however", "could", "should").
CommentKinds ==
  {[sentiment |-> "positive", contrastive |-> FALSE],
   [sentiment |-> "negative", contrastive |-> FALSE],
   [sentiment |-> "neutral", contrastive |-> FALSE],
   [sentiment |-> "neutral", contrastive |-> TRUE]}

SeqsUpTo(S, n) == UNION {[1 .. k -> S] : k \in 0 .. n}

NoSummary == [positive |-> [count |-> -1, percentage |-> -1],
              negative |-> [count |-> -1, percentage |-> -1],
              neutral |-> [count |-> -1, percentage |-> -1]]

EmptyList == "[]"
EmptyPatterns == "{positive_patterns: [], negative_patterns: [], neutral_patterns: []}"
EmptyWantMore == "{content_requests: [], expansion_requests: [], missing_topics: []}"
LlmAnswer == "llm"

\* const initialState: AnalysisState = {...}
InitialAnalysisState ==
  [classifiedComments |-> <<>>, positiveComments |-> <<>>,
   negativeComments |-> <<>>, neutralComments |-> <<>>,
   thingsLoved |-> Undefined, improvements |-> Undefined, emotions |-> Undefined,
   patterns |-> Undefined, wantMore |-> Undefined,
   summary |-> NoSummary, totalProcessed |-> -1]

IsPositive(c) == c.sentiment = "positive"
IsNegative(c) == c.sentiment = "negative"
IsNeutral(c) == c.sentiment = "neutral"
IsContrastive(c) == c.contrastive

separateCommentsNode_FallThrough(st) ==
  [positiveComments |-> SelectSeq(st.classifiedComments, IsPositive),
   negativeComments |-> SelectSeq(st.classifiedComments, IsNegative),
   neutralComments |-> SelectSeq(st.classifiedComments,
                                 LAMBDA c : IsNegative(c) \/ IsNeutral(c))]
separateCommentsNode(st) ==
  [positiveComments |-> SelectSeq(st.classifiedComments, IsPositive),
   negativeComments |-> SelectSeq(st.classifiedComments, IsNegative),
   neutralComments |-> SelectSeq(st.classifiedComments, IsNeutral)]

\* Math.round((count / total) * 100): the nearest integer, a half rounded up.
\* (The quotient is a double; it is a half only when 8 divides total, which is
\* beyond the lists checked here, so rounding the exact quotient is the same.)
RoundPercent_Floor(count, total) == (100 * count) \div total
RoundPercent(count, total) == (200 * count + total) \div (2 * total)

calculateSummaryNode(st) ==
  LET total == Len(st.classifiedComments)
      bucket(list) == [count |-> Len(list), percentage |-> RoundPercent(Len(list), total)]
  IN IF total = 0
     THEN [summary |-> [positive |-> [count |-> 0, percentage |-> 0],
                        negative |-> [count |-> 0, percentage |-> 0],
                        neutral |-> [count |-> 0, percentage |-> 0]],
           totalProcessed |-> 0]
     ELSE [summary |-> [positive |-> bucket(st.positiveComments),
                        negative |-> bucket(st.negativeComments),
                        neutral |-> bucket(st.neutralComments)],
           totalProcessed |-> total]

\* The field an insight node writes, and the value it falls back to.
FieldOf_PatternsIntoEmotions(n) ==
  CASE n = "analyze_emotions" -> "emotions"
    [] n = "analyze_patterns" -> "emotions"
    [] n = "analyze_loved" -> "thingsLoved"
    [] n = "analyze_improvements" -> "improvements"
    [] n = "analyze_wantMore" -> "wantMore"
FieldOf(n) ==
  CASE n = "analyze_emotions" -> "emotions"
    [] n = "analyze_patterns" -> "patterns"
    [] n = "analyze_loved" -> "thingsLoved"
    [] n = "analyze_improvements" -> "improvements"
    [] n = "analyze_wantMore" -> "wantMore"

DefaultOf(n) ==
  CASE n = "analyze_emotions" -> EmptyList
    [] n = "analyze_patterns" -> EmptyPatterns
    [] n = "analyze_loved" -> EmptyList
    [] n = "analyze_improvements" -> EmptyList
    [] n = "analyze_wantMore" -> EmptyWantMore

\* The early returns before the LLM call.
ReturnsWithoutLlm(n, st) ==
  CASE n = "analyze_emotions" -> Len(st.classifiedComments) = 0
    [] n = "analyze_patterns" -> FALSE
    [] n = "analyze_loved" -> Len(st.positiveComments) = 0
    [] n = "analyze_improvements" ->
         Len(st.negativeComments
             \o SelectSeq(st.neutralComments, IsContrastive)) = 0
    [] n = "analyze_wantMore" ->
         Len(st.positiveComments \o st.neutralComments) = 0

\* The catch branch of an insight node: return the default (never rethrow).
InsightOnError_Rethrow(n) == NodeThrows(n)
InsightOnError(n) == NodeReturns(n, FieldOf(n) :> DefaultOf(n))

\* return { summary: result.summary!, thingsLoved: result.thingsLoved || [], ... }
OrDefault(v, d) == IF v = Undefined THEN d ELSE v

WorkflowResult(st) ==
  [summary |-> st.summary,
   thingsLoved |-> OrDefault(st.thingsLoved, EmptyList),
   improvements |-> OrDefault(st.improvements, EmptyList),
   emotions |-> OrDefault(st.emotions, EmptyList),
   patterns |-> OrDefault(st.patterns, EmptyPatterns),
   wantMore |-> OrDefault(st.wantMore, EmptyWantMore),
   totalProcessed |-> st.totalProcessed,
   hasTranscript |-> hasTranscript]

NoResult == <<>>

GraphInit ==
  /\ RestUnused
  /\ JobUnused
  /\ StreamUnused
  /\ PoolUnused
  /\ ValUnused
  /\ gphase = "idle"
  /\ task = [n \in AnalysisNodes |-> "idle"]
  /\ pending = [n \in AnalysisNodes |-> NoUpdate]
  /\ started = [n \in AnalysisNodes |-> 0]
  /\ finished = [n \in AnalysisNodes |-> 0]
  /\ numComments \in 0 .. MaxClassified
  /\ hasTranscript \in BOOLEAN
  /\ astate = InitialAnalysisState
  /\ llmFailed = {}
  /\ wfResult = NoResult

\* socketService.emitProgress({stage, percentage, ...})
emitProgress(p, stage, percentage) ==
  [count |-> p.count + 1, last |-> percentage, stage |-> stage,
   fell |-> p.fell \/ percentage < p.last]

\* The stage and the percentage each node is wrapped with.
StageOf(n) ==
  CASE n = "classify" -> "classifying_comments"
    [] n = "separate" -> "classifying_comments"
    [] n = "analyze_emotions" -> "analyzing_emotions"
    [] n = "analyze_patterns" -> "analyzing_patterns"
    [] n = "analyze_loved" -> "analyzing_loved"
    [] n = "analyze_improvements" -> "analyzing_improvements"
    [] n = "analyze_wantMore" -> "analyzing_wantMore"
    [] n = "summarize" -> "summarizing"

PercentageOf(n) ==
  CASE n = "classify" -> 40
    [] n = "separate" -> 60
    [] n = "analyze_emotions" -> 70
    [] n = "analyze_patterns" -> 70
    [] n = "analyze_loved" -> 80
    [] n = "analyze_improvements" -> 85
    [] n = "analyze_wantMore" -> 70
    [] n = "summarize" -> 95

\* wrapNodeWithProgress: if (jobId) emitProgress(...), then the node.
WrapperEmits(n) ==
  IF jobId # Undefined THEN emitProgress(prog, StageOf(n), PercentageOf(n)) ELSE prog

\* executeAnalysisWorkflow: if (jobId) emitProgress({percentage: 35, ...})
InitialProgressFrom(p) ==
  IF jobId # Undefined THEN emitProgress(p, "classifying_comments", 35) ELSE p

InitialProgress == InitialProgressFrom(prog)

\* graph.invoke(initialState): the nodes START leads to are triggered.
InvokeAnalysisGraph ==
  /\ gphase' = "running"
  /\ task' = [n \in DOMAIN task |->
                IF n \in Triggered(AnalysisEdges, {StartNode}) THEN "ready" ELSE "idle"]
  /\ UNCHANGED <<pending, started, finished>>

\* executeAnalysisWorkflow up to: const result = await graph.invoke(initialState)
GraphInvoke ==
  /\ gphase = "idle"
  /\ jpc = "unused"
  /\ InvokeAnalysisGraph
  /\ UNCHANGED wfVars
  /\ prog' = InitialProgress
  /\ UNCHANGED notWf

\* classifyCommentsNode is called: no comments, or the worker pool is awaited.
ClassifyStarts ==
  /\ gphase = "running"
  /\ task["classify"] = "ready"
  /\ started' = [started EXCEPT !["classify"] = @ + 1]
  /\ IF numComments = 0
     THEN NodeReturns("classify", [classifiedComments |-> <<>>])
     ELSE /\ task' = [task EXCEPT !["classify"] = "await"]
          /\ UNCHANGED <<pending, finished>>
  /\ UNCHANGED <<gphase, wfVars>>
  /\ prog' = WrapperEmits("classify")
  /\ UNCHANGED notWf

\* The worker pool returned: whatever labels the LLM gave for the batches that
\* succeeded, none when every batch failed.
ClassifyReturns ==
  /\ gphase = "running"
  /\ task["classify"] = "await"
  /\ \E labels \in SeqsUpTo(CommentKinds, MaxClassified) :
       NodeReturns("classify", [classifiedComments |-> labels])
  /\ UNCHANGED <<gphase, started, wfVars>>
  /\ UNCHANGED prog
  /\ UNCHANGED notWf

\* separateCommentsNode and calculateSummaryNode await nothing.
SeparateRuns ==
  /\ gphase = "running"
  /\ task["separate"] = "ready"
  /\ started' = [started EXCEPT !["separate"] = @ + 1]
  /\ NodeReturns("separate", separateCommentsNode(astate))
  /\ UNCHANGED <<gphase, wfVars>>
  /\ prog' = WrapperEmits("separate")
  /\ UNCHANGED notWf

SummarizeRuns ==
  /\ gphase = "running"
  /\ task["summarize"] = "ready"
  /\ started' = [started EXCEPT !["summarize"] = @ + 1]
  /\ NodeReturns("summarize", calculateSummaryNode(astate))
  /\ UNCHANGED <<gphase, wfVars>>
  /\ prog' = WrapperEmits("summarize")
  /\ UNCHANGED notWf

\* An insight node is called: it returns its default at once, or awaits model.invoke.
InsightStarts(n) ==
  /\ gphase = "running"
  /\ task[n] = "ready"
  /\ started' = [started EXCEPT ![n] = @ + 1]
  /\ IF ReturnsWithoutLlm(n, astate)
     THEN NodeReturns(n, FieldOf(n) :> DefaultOf(n))
     ELSE /\ task' = [task EXCEPT ![n] = "await"]
          /\ UNCHANGED <<pending, finished>>
  /\ UNCHANGED <<gphase, wfVars>>
  /\ prog' = WrapperEmits(n)
  /\ UNCHANGED notWf

InsightLlmAnswers(n) ==
  /\ gphase = "running"
  /\ task[n] = "await"
  /\ NodeReturns(n, FieldOf(n) :> LlmAnswer)
  /\ UNCHANGED <<gphase, started, wfVars>>
  /\ UNCHANGED prog
  /\ UNCHANGED notWf

InsightLlmFails(n) ==
  /\ gphase = "running"
  /\ task[n] = "await"
  /\ InsightOnError(n)
  /\ llmFailed' = llmFailed \cup {n}
  /\ UNCHANGED <<gphase, started, numComments, hasTranscript, astate, wfResult>>
  /\ UNCHANGED prog
  /\ UNCHANGED notWf

\* Every node of the superstep has settled: apply the updates and trigger the
\* next nodes; with none left invoke() resolves and executeAnalysisWorkflow
\* returns.  A node that threw, or two writes to one channel, reject invoke().
AnalysisSuperstepEnds ==
  /\ gphase = "running"
  /\ Scheduled # {}
  /\ \A n \in Scheduled : task[n] \in {"finished", "threw"}
  /\ IF ThrewNow # {} \/ WriteConflict(pending, FinishedNow)
     THEN /\ gphase' = "failed"
          /\ task' = [n \in DOMAIN task |-> "idle"]
          /\ UNCHANGED <<astate, wfResult>>
     ELSE LET st == ApplyAll(astate, pending, FinishedNow)
              next == Triggered(AnalysisEdges, FinishedNow)
          IN /\ astate' = st
             /\ task' = [n \in DOMAIN task |-> IF n \in next THEN "ready" ELSE "idle"]
             /\ gphase' = IF next = {} THEN "done" ELSE "running"
             /\ wfResult' = IF next = {} THEN WorkflowResult(st) ELSE wfResult
  /\ pending' = [n \in DOMAIN pending |-> NoUpdate]
  /\ UNCHANGED <<started, finished, numComments, hasTranscript, llmFailed>>
  /\ UNCHANGED prog
  /\ UNCHANGED notWf

GraphNext ==
  \/ GraphInvoke
  \/ ClassifyStarts
  \/ ClassifyReturns
  \/ SeparateRuns
  \/ \E n \in InsightNodes : InsightStarts(n)
  \/ \E n \in InsightNodes : InsightLlmAnswers(n)
  \/ \E n \in InsightNodes : InsightLlmFails(n)
  \/ SummarizeRuns
  \/ AnalysisSuperstepEnds

GraphSpec == GraphInit /\ [][GraphNext]_vars

\* While a step is possible some step is taken: a pending LLM call settles
\* and the runtime schedules what it triggered.
GraphFairness == WF_vars(GraphNext)

FairGraphSpec == GraphInit /\ [][GraphNext]_vars /\ GraphFairness

(***************************************************************************)
(* The validation graph.                                                   *)
(***************************************************************************)
Null == "null"

AgentNodes == {"competition_agent", "audience_agent", "trend_agent", "strategy_agent"}
ValidationNodes == AgentNodes \cup {"barrier", "supervisor"}

\* workflow.addEdge(...)
ValidationEdges_BarrierFromStart ==
  {<<StartNode, n>> : n \in AgentNodes}
  \cup {<<StartNode, "barrier">>}
  \cup {<<n, "barrier">> : n \in AgentNodes}
  \cup {<<"barrier", "supervisor">>, <<"supervisor", EndNode>>}
ValidationEdges ==
  {<<StartNode, n>> : n \in AgentNodes}
  \cup {<<n, "barrier">> : n \in AgentNodes}
  \cup {<<"barrier", "supervisor">>, <<"supervisor", EndNode>>}

\* The name an agent adds to agentsCompleted, and the slot it writes.
AgentName(n) ==
  CASE n = "competition_agent" -> "competition"
    [] n = "audience_agent" -> "audience"
    [] n = "trend_agent" -> "trend"
    [] n = "strategy_agent" -> "strategy"

\* A variant in which every agent returns its analysis in one channel.
SlotOf_AllIntoCompetition(n) == "competitionAnalysis"

SlotOf(n) ==
  CASE n = "competition_agent" -> "competitionAnalysis"
    [] n = "audience_agent" -> "audienceAnalysis"
    [] n = "trend_agent" -> "trendAnalysis"
    [] n = "strategy_agent" -> "strategyAnalysis"

Slots == {"competitionAnalysis", "audienceAnalysis", "trendAnalysis", "strategyAnalysis"}

\* for (let i = 0; i < 5; i++), and i < 6 in strategyAgentNode
LoopCap_NoCap(n) == 100
LoopCap(n) == IF n = "strategy_agent" THEN 6 ELSE 5

\* The channels' defaults.
DefaultAgentState ==
  [idea |-> "", targetAudience |-> "", goal |-> "", jobId |-> "",
   competitionAnalysis |-> Null, audienceAnalysis |-> Null,
   trendAnalysis |-> Null, strategyAnalysis |-> Null,
   agentsCompleted |-> {}, finalOutput |-> Null]

\* A value written to agentsCompleted: a string, or a Set.
AsString(x) == [kind |-> "string", value |-> x]
AsSet(S) == [kind |-> "set", value |-> S]

\* The reducer of agentsCompleted.
agentsCompletedReducer_LastWins(prev, next) ==
  IF next.kind = "string"
  THEN IF next.value = "" THEN prev ELSE {next.value}
  ELSE next.value
agentsCompletedReducer(prev, next) ==
  IF next.kind = "string"
  THEN IF next.value = "" THEN prev ELSE prev \cup {next.value}
  ELSE prev \cup next.value

\* reducer: (prev, next) => next ?? prev
LastOrPrev(prev, next) == IF next = Null THEN prev ELSE next

ReduceUpdate(st, upd) ==
  [f \in DOMAIN st |->
     IF f \notin DOMAIN upd THEN st[f]
     ELSE IF f = "agentsCompleted" THEN agentsCompletedReducer(st[f], upd[f])
     ELSE LastOrPrev(st[f], upd[f])]

RECURSIVE ReduceAll(_, _, _)
ReduceAll(st, upds, nodes) ==
  IF nodes = {} THEN st
  ELSE LET n == CHOOSE x \in nodes : TRUE
       IN ReduceAll(ReduceUpdate(st, upds[n]), upds, nodes \ {n})

\* const requiredAgents = new Set(["competition", "audience", "trend", "strategy"])
RequiredAgents == <<"competition", "audience", "trend", "strategy">>

NoOutcome == [threw |-> FALSE, text |-> "not run", missing |-> <<>>, update |-> NoUpdate]

\* barrierNode: what it throws (the message's text and the names joined into
\* it), or the update it returns.
barrierNode_AnyInsteadOfEvery(st) ==
  LET isMissing(a) == a \notin st.agentsCompleted
      missing == SelectSeq(RequiredAgents, isMissing)
      allComplete == \E i \in DOMAIN RequiredAgents : RequiredAgents[i] \in st.agentsCompleted
  IN IF ~allComplete
     THEN [threw |-> TRUE, text |-> "Not all agents completed. Missing: ",
           missing |-> missing, update |-> NoUpdate]
     ELSE IF \E f \in Slots : st[f] = Null
     THEN [threw |-> TRUE, text |-> "Some agent data is missing",
           missing |-> <<>>, update |-> NoUpdate]
     ELSE [threw |-> FALSE, text |-> "", missing |-> <<>>, update |-> NoUpdate]
barrierNode(st) ==
  LET isMissing(a) == a \notin st.agentsCompleted
      missing == SelectSeq(RequiredAgents, isMissing)
      allComplete == \A i \in DOMAIN RequiredAgents : RequiredAgents[i] \in st.agentsCompleted
  IN IF ~allComplete
     THEN [threw |-> TRUE, text |-> "Not all agents completed. Missing: ",
           missing |-> missing, update |-> NoUpdate]
     ELSE IF \E f \in Slots : st[f] = Null
     THEN [threw |-> TRUE, text |-> "Some agent data is missing",
           missing |-> <<>>, update |-> NoUpdate]
     ELSE [threw |-> FALSE, text |-> "", missing |-> <<>>, update |-> NoUpdate]

\* An agent has no try/catch: a rejected model or tool call rejects the node.
AgentOnError_Fallback(n) ==
  NodeReturns(n, (SlotOf(n) :> "fallback") @@ ("agentsCompleted" :> AsString(AgentName(n))))
AgentOnError(n) == NodeThrows(n)

ValInit ==
  /\ RestUnused
  /\ JobUnused
  /\ StreamUnused
  /\ PoolUnused
  /\ WfUnused
  /\ svc = "idle"
  /\ gphase = "idle"
  /\ task = [n \in ValidationNodes |-> "idle"]
  /\ pending = [n \in ValidationNodes |-> NoUpdate]
  /\ started = [n \in ValidationNodes |-> 0]
  /\ finished = [n \in ValidationNodes |-> 0]
  /\ vstate = DefaultAgentState
  /\ apc = [n \in AgentNodes |-> "none"]
  /\ loopI = [n \in AgentNodes |-> 0]
  /\ toolsLeft = [n \in AgentNodes |-> 0]
  /\ callFailed = {}
  /\ barrierInput = DefaultAgentState
  /\ barrierOutcome = NoOutcome

\* validateIdeaService up to: const result = await graph.invoke(initialState)
ServiceStarts ==
  /\ svc = "idle"
  /\ svc' = "running"
  /\ gphase' = "running"
  /\ vstate' = ReduceUpdate(DefaultAgentState,
                            [idea |-> "idea", targetAudience |-> "audience", goal |-> "goal"])
  /\ task' = [n \in DOMAIN task |->
                IF n \in Triggered(ValidationEdges, {StartNode}) THEN "ready" ELSE "idle"]
  /\ UNCHANGED <<pending, started, finished, apc, loopI, toolsLeft, callFailed,
                 barrierInput, barrierOutcome>>
  /\ UNCHANGED notVal

\* Once invoke() rejected, what the agents still running return is discarded
\* by the runtime: their continuations are not followed further.
AgentMayRun == gphase = "running"

\* An agent node is called: up to the first await model.invoke(messages).
AgentStarts(n) ==
  /\ gphase = "running"
  /\ task[n] = "ready"
  /\ started' = [started EXCEPT ![n] = @ + 1]
  /\ task' = [task EXCEPT ![n] = "await"]
  /\ apc' = [apc EXCEPT ![n] = "llm"]
  /\ loopI' = [loopI EXCEPT ![n] = 0]
  /\ UNCHANGED <<gphase, svc, vstate, pending, finished, toolsLeft, callFailed,
                 barrierInput, barrierOutcome>>
  /\ UNCHANGED notVal

\* model.invoke answered with k tool calls: none breaks the loop (synthesis
\* is awaited next), otherwise the first tool is awaited.
AgentLlmAnswers(n, k) ==
  /\ AgentMayRun
  /\ task[n] = "await" /\ apc[n] = "llm"
  /\ apc' = [apc EXCEPT ![n] = IF k = 0 THEN "synth" ELSE "tool"]
  /\ toolsLeft' = [toolsLeft EXCEPT ![n] = k]
  /\ UNCHANGED <<gphase, svc, vstate, task, pending, started, finished, loopI,
                 callFailed, barrierInput, barrierOutcome>>
  /\ UNCHANGED notVal

\* A tool returned: the next tool call, or i++ and the next model.invoke, or
\* the loop's end and the synthesis call.
AgentToolReturns(n) ==
  /\ AgentMayRun
  /\ task[n] = "await" /\ apc[n] = "tool"
  /\ toolsLeft' = [toolsLeft EXCEPT ![n] = @ - 1]
  /\ IF toolsLeft[n] > 1
     THEN UNCHANGED <<apc, loopI>>
     ELSE /\ loopI' = [loopI EXCEPT ![n] = @ + 1]
          /\ apc' = [apc EXCEPT ![n] = IF loopI[n] + 1 < LoopCap(n) THEN "llm" ELSE "synth"]
  /\ UNCHANGED <<gphase, svc, vstate, task, pending, started, finished,
                 callFailed, barrierInput, barrierOutcome>>
  /\ UNCHANGED notVal

\* The synthesis call answered: return the analysis and the agent's name.
AgentSynthAnswers(n) ==
  /\ AgentMayRun
  /\ task[n] = "await" /\ apc[n] = "synth"
  /\ NodeReturns(n, (SlotOf(n) :> "analysis")
                    @@ ("agentsCompleted" :> AsString(AgentName(n))))
  /\ apc' = [apc EXCEPT ![n] = "none"]
  /\ loopI' = [loopI EXCEPT ![n] = 0]
  /\ toolsLeft' = [toolsLeft EXCEPT ![n] = 0]
  /\ UNCHANGED <<gphase, svc, vstate, started, callFailed,
                 barrierInput, barrierOutcome>>
  /\ UNCHANGED notVal

\* A model.invoke, a tool or the synthesis call rejected.
AgentCallFails(n) ==
  /\ AgentMayRun
  /\ task[n] = "await"
  /\ AgentOnError(n)
  /\ apc' = [apc EXCEPT ![n] = "none"]
  /\ callFailed' = callFailed \cup {n}
  /\ loopI' = [loopI EXCEPT ![n] = 0]
  /\ toolsLeft' = [toolsLeft EXCEPT ![n] = 0]
  /\ UNCHANGED <<gphase, svc, vstate, started,
                 barrierInput, barrierOutcome>>
  /\ UNCHANGED notVal

BarrierRuns ==
  /\ gphase = "running"
  /\ task["barrier"] = "ready"
  /\ started' = [started EXCEPT !["barrier"] = @ + 1]
  /\ barrierInput' = vstate
  /\ barrierOutcome' = barrierNode(vstate)
  /\ IF barrierNode(vstate).threw
     THEN NodeThrows("barrier")
     ELSE NodeReturns("barrier", barrierNode(vstate).update)
  /\ UNCHANGED <<gphase, svc, vstate, apc, loopI, toolsLeft, callFailed>>
  /\ UNCHANGED notVal

\* supervisorNode is called: it throws on a missing slot, else awaits model.invoke.
SupervisorStarts ==
  /\ gphase = "running"
  /\ task["supervisor"] = "ready"
  /\ started' = [started EXCEPT !["supervisor"] = @ + 1]
  /\ IF \E f \in Slots : vstate[f] = Null
     THEN NodeThrows("supervisor")
     ELSE /\ task' = [task EXCEPT !["supervisor"] = "await"]
          /\ UNCHANGED <<pending, finished>>
  /\ UNCHANGED <<gphase, svc, vstate, apc, loopI, toolsLeft, callFailed,
                 barrierInput, barrierOutcome>>
  /\ UNCHANGED notVal

SupervisorLlmAnswers ==
  /\ gphase = "running"
  /\ task["supervisor"] = "await"
  /\ NodeReturns("supervisor", [finalOutput |-> "final"])
  /\ UNCHANGED <<gphase, svc, vstate, started, apc, loopI, toolsLeft, callFailed,
                 barrierInput, barrierOutcome>>
  /\ UNCHANGED notVal

SupervisorLlmFails ==
  /\ gphase = "running"
  /\ task["supervisor"] = "await"
  /\ NodeThrows("supervisor")
  /\ UNCHANGED <<gphase, svc, vstate, started, apc, loopI, toolsLeft, callFailed,
                 barrierInput, barrierOutcome>>
  /\ UNCHANGED notVal

\* Every node of the superstep returned: reduce the updates into the channels
\* and trigger the next nodes; with none left invoke() resolves.
ValSuperstepEnds ==
  /\ gphase = "running"
  /\ Scheduled # {}
  /\ \A n \in Scheduled : task[n] = "finished"
  /\ LET next == Triggered(ValidationEdges, FinishedNow)
     IN /\ vstate' = ReduceAll(vstate, pending, FinishedNow)
        /\ task' = [n \in DOMAIN task |-> IF n \in next THEN "ready" ELSE "idle"]
        /\ gphase' = IF next = {} THEN "done" ELSE "running"
  /\ pending' = [n \in DOMAIN pending |-> NoUpdate]
  /\ UNCHANGED <<svc, started, finished, apc, loopI, toolsLeft, callFailed,
                 barrierInput, barrierOutcome>>
  /\ UNCHANGED notVal

\* A node of the superstep threw: invoke() rejects, at once or after the other
\* nodes of the superstep have settled.
ValRejects ==
  /\ gphase = "running"
  /\ ThrewNow # {}
  /\ gphase' = "failed"
  /\ UNCHANGED <<svc, vstate, task, pending, started, finished, apc, loopI,
                 toolsLeft, callFailed, barrierInput, barrierOutcome>>
  /\ UNCHANGED notVal

\* validateIdeaService after the await: it rejects with invoke's error, throws
\* "Final output was not generated", or returns the final output.
ServiceResumes ==
  /\ svc = "running"
  /\ gphase \in {"done", "failed"}
  /\ svc' = IF gphase = "done" /\ vstate.finalOutput # Null THEN "returned" ELSE "rejected"
  /\ UNCHANGED <<gphase, vstate, task, pending, started, finished, apc, loopI,
                 toolsLeft, callFailed, barrierInput, barrierOutcome>>
  /\ UNCHANGED notVal

ValNext ==
  \/ ServiceStarts
  \/ \E n \in AgentNodes : AgentStarts(n)
  \/ \E n \in AgentNodes : \E k \in 0 .. MaxToolCalls : AgentLlmAnswers(n, k)
  \/ \E n \in AgentNodes : AgentToolReturns(n)
  \/ \E n \in AgentNodes : AgentSynthAnswers(n)
  \/ \E n \in AgentNodes : AgentCallFails(n)
  \/ BarrierRuns
  \/ SupervisorStarts
  \/ SupervisorLlmAnswers
  \/ SupervisorLlmFails
  \/ ValSuperstepEnds
  \/ ValRejects
  \/ ServiceResumes

ValSpec == ValInit /\ [][ValNext]_vars

\* The runtime rejects invoke() once a node threw, and the continuation of
\* validateIdeaService is scheduled once invoke() settled.  No call of an
\* agent is assumed to ever answer.
ValFairness ==
  /\ WF_vars(ValRejects)
  /\ WF_vars(ServiceResumes)

FairValSpec == ValInit /\ [][ValNext]_vars /\ ValFairness

\* Every call an agent awaits (model.invoke, a tool, the synthesis call)
\* eventually answers or rejects.
AgentProgress ==
  \E n \in AgentNodes :
    \/ AgentStarts(n)
    \/ \E k \in 0 .. MaxToolCalls : AgentLlmAnswers(n, k)
    \/ AgentToolReturns(n)
    \/ AgentSynthAnswers(n)
    \/ AgentCallFails(n)

\* One agent node, or two of them side by side, called with the state
\* validateIdeaService builds (an agent reads the inputs only, never another
\* agent's loop).
AgentLoopInit ==
  /\ RestUnused
  /\ JobUnused
  /\ StreamUnused
  /\ PoolUnused
  /\ WfUnused
  /\ svc = "running"
  /\ gphase = "running"
  /\ \E a, b \in AgentNodes :
       task = [n \in ValidationNodes |-> IF n \in {a, b} THEN "ready" ELSE "idle"]
  /\ pending = [n \in ValidationNodes |-> NoUpdate]
  /\ started = [n \in ValidationNodes |-> 0]
  /\ finished = [n \in ValidationNodes |-> 0]
  /\ vstate = ReduceUpdate(DefaultAgentState,
                           [idea |-> "idea", targetAudience |-> "audience", goal |-> "goal"])
  /\ apc = [n \in AgentNodes |-> "none"]
  /\ loopI = [n \in AgentNodes |-> 0]
  /\ toolsLeft = [n \in AgentNodes |-> 0]
  /\ callFailed = {}
  /\ barrierInput = DefaultAgentState
  /\ barrierOutcome = NoOutcome

AgentLoopSpec == AgentLoopInit /\ [][AgentProgress]_vars /\ WF_vars(AgentProgress)

(***************************************************************************)
(* barrierNode applied to an arbitrary AgentState.                         *)
(***************************************************************************)
BarrierInit ==
  /\ RestUnused
  /\ JobUnused
  /\ StreamUnused
  /\ PoolUnused
  /\ GraphUnused
  /\ WfUnused
  /\ svc = "unused"
  /\ \E done \in SUBSET (SeqSet(RequiredAgents) \cup {"other"}) :
     \E slots \in [Slots -> {Null, "analysis"}] :
       vstate = [f \in DOMAIN DefaultAgentState |->
                   IF f = "agentsCompleted" THEN done
                   ELSE IF f \in Slots THEN slots[f]
                   ELSE DefaultAgentState[f]]
  /\ apc = <<>>
  /\ loopI = <<>>
  /\ toolsLeft = <<>>
  /\ callFailed = {}
  /\ barrierInput = DefaultAgentState
  /\ barrierOutcome = NoOutcome

BarrierApplied ==
  /\ barrierOutcome = NoOutcome
  /\ barrierInput' = vstate
  /\ barrierOutcome' = barrierNode(vstate)
  /\ vstate' = IF barrierNode(vstate).threw THEN vstate
               ELSE ReduceUpdate(vstate, barrierNode(vstate).update)
  /\ UNCHANGED <<svc, apc, loopI, toolsLeft, callFailed, graphVars>>
  /\ UNCHANGED notVal

BarrierNext == BarrierApplied

BarrierSpec == BarrierInit /\ [][BarrierNext]_vars

(***************************************************************************)
(* Claims about the video analysis graph.                                  *)
(***************************************************************************)
\* C6: summarize is called at most once, only when classify, separate and the
\* five insight nodes have each returned (answer or default) and none is still
\* running; a finished run has called it exactly once; and once summarize has
\* been called no other node is called.
C6_SummarizeOnceAndLast ==
  /\ [](/\ started["summarize"] <= 1
        /\ started["summarize"] >= 1 =>
             \A n \in AnalysisNodes \ {"summarize"} :
               finished[n] = 1 /\ task[n] = "idle"
        /\ gphase = "done" => started["summarize"] = 1 /\ finished["summarize"] = 1)
  /\ [][started["summarize"] >= 1 =>
          \A n \in AnalysisNodes \ {"summarize"} : started'[n] = started[n]]_vars

\* C6 witness: a run is done in which some insight stages fell back to their
\* default and the others got an answer, and summarize ran once.
C6_Witness ==
  /\ gphase = "done"
  /\ llmFailed # {}
  /\ \E n \in InsightNodes : astate[FieldOf(n)] = LlmAnswer
  /\ started["summarize"] = 1

\* C7: an insight stage whose LLM call failed does not throw and leaves its
\* default in its field (emotions [], thingsLoved [], improvements [], patterns
\* and wantMore with empty arrays); the run never fails, always completes, and
\* its result then has a summary and every fragment non-null.
C7_InsightFailureIsDefault ==
  LET expected(n) ==
        CASE n = "analyze_emotions" -> "[]"
          [] n = "analyze_loved" -> "[]"
          [] n = "analyze_improvements" -> "[]"
          [] n = "analyze_patterns" ->
               "{positive_patterns: [], negative_patterns: [], neutral_patterns: []}"
          [] n = "analyze_wantMore" ->
               "{content_requests: [], expansion_requests: [], missing_topics: []}"
  IN /\ [](/\ gphase # "failed"
           /\ \A n \in llmFailed :
                /\ task[n] # "threw"
                /\ task[n] = "finished" => pending[n] = (FieldOf(n) :> expected(n))
                /\ task[n] = "idle" => astate[FieldOf(n)] = expected(n)
           /\ gphase = "done" =>
                /\ \A f \in {"emotions", "patterns", "thingsLoved", "improvements",
                             "wantMore"} : wfResult[f] # "undefined"
                /\ wfResult.summary # NoSummary
                /\ \A n \in llmFailed : wfResult[FieldOf(n)] = expected(n))
     /\ <>(gphase = "done")

\* C7 witness: all five LLM calls failed and the run is done.
C7_Witness ==
  /\ gphase = "done"
  /\ llmFailed = InsightNodes

(***************************************************************************)
(* Claims about the validation graph.                                      *)
(***************************************************************************)

\* C8: the barrier runs only after all four agents have returned, the
\* supervisor runs only after the barrier has returned without error, and
\* each of the barrier and the supervisor runs at most once per run, in every
\* completion order of the agents.
C8_BarrierJoinsSupervisorFollows ==
  /\ started["barrier"] <= 1
  /\ started["supervisor"] <= 1
  /\ started["barrier"] >= 1 =>
       \A n \in AgentNodes :
         /\ started[n] = 1
         /\ finished[n] = 1
         /\ task[n] = "idle"
         /\ AgentName(n) \in barrierInput.agentsCompleted
         /\ barrierInput[SlotOf(n)] # Null
  /\ started["supervisor"] >= 1 =>
       /\ finished["barrier"] = 1
       /\ task["barrier"] = "idle"
       /\ barrierOutcome # NoOutcome
       /\ ~barrierOutcome.threw

C8_Witness ==
  /\ started["supervisor"] = 1
  /\ finished["barrier"] = 1
  /\ \A n \in AgentNodes : finished[n] = 1

\* C9: barrierNode throws an error naming exactly the missing agents when a
\* required name is absent from agentsCompleted, throws when all names are
\* present but an output slot is null, returns only when all four names are
\* present and all four slots are non-null, and never modifies the state.
C9_BarrierChecksNamesThenSlots ==
  barrierOutcome # NoOutcome =>
    LET absent == {a \in SeqSet(RequiredAgents) : a \notin barrierInput.agentsCompleted}
        nullSlot == \E f \in Slots : barrierInput[f] = Null
    IN /\ absent # {} =>
            /\ barrierOutcome.threw
            /\ barrierOutcome.text = "Not all agents completed. Missing: "
            /\ SeqSet(barrierOutcome.missing) = absent
            /\ Len(barrierOutcome.missing) = Cardinality(absent)
       /\ (absent = {} /\ nullSlot) => barrierOutcome.threw
       /\ ~barrierOutcome.threw <=> (absent = {} /\ ~nullSlot)
       /\ vstate = barrierInput

C9_Witness ==
  /\ barrierOutcome.threw
  /\ barrierOutcome.missing = <<"audience", "strategy">>
  /\ "other" \in barrierInput.agentsCompleted

\* C10: when an agent throws (in its tool loop or its synthesis call) or the
\* barrier throws, the supervisor never runs, finalOutput is never written,
\* and validateIdeaService rejects instead of returning.
C10_Failed == callFailed # {} \/ barrierOutcome.threw

C10_FailureAbortsRun ==
  /\ [](C10_Failed =>
          /\ started["supervisor"] = 0
          /\ vstate.finalOutput = Null
          /\ svc # "returned")
  /\ (C10_Failed ~> svc = "rejected")

C10_Witness ==
  /\ callFailed # {}
  /\ svc = "rejected"
  /\ \E n \in AgentNodes : finished[n] = 1

(***************************************************************************)
(* The StreamWriter and IdeaValidatorController.validateIdea.              *)
(*                                                                         *)
(* A record on the stream is kept as its type, its level or status, and    *)
(* the error message it carries; the other texts are left out.  What the   *)
(* agents do between their writes is in ValSpec; here an agent is only     *)
(* where it stands and what it writes.                                     *)
(***************************************************************************)
MaxAgentWrites == 1
MaxEndCalls == 2

Rec(type, tag, msg) == [type |-> type, tag |-> tag, msg |-> msg]

\* new StreamWriter(res)
NewWriter == [records |-> <<>>, isClosed |-> FALSE, resEnds |-> 0, endCalls |-> 0,
              dropped |-> 0]

\* StreamWriter.write
write_NoClosedCheck(w, rec) ==
  [w EXCEPT !.records = Append(@, rec)]
write(w, rec) ==
  IF w.isClosed
  THEN [w EXCEPT !.dropped = @ + 1]
  ELSE [w EXCEPT !.records = Append(@, rec)]

log(w, level) == write(w, Rec("log", level, ""))
logError(w, msg) == write(w, Rec("log", "error", msg))
agentStatus(w, status) == write(w, Rec("agent_status", status, ""))
progress(w, current) == write(w, Rec("progress", current, ""))
finalSuccess(w) == write(w, Rec("final", "success", ""))
finalFailure(w, msg) == write(w, Rec("final", "failure", msg))

\* StreamWriter.end
end_NoClosedCheck(w) ==
  [w EXCEPT !.isClosed = TRUE, !.resEnds = @ + 1, !.endCalls = @ + 1]
end(w) ==
  IF w.isClosed
  THEN [w EXCEPT !.endCalls = @ + 1]
  ELSE [w EXCEPT !.isClosed = TRUE, !.resEnds = @ + 1, !.endCalls = @ + 1]

\* validateIdeaService up to graph.invoke: four logs and two progress records.
ServicePrelude(w) ==
  progress(progress(log(log(log(log(w, "info"), "info"), "info"), "info"), "0/5"), "1/5")

\* validateIdeaService after graph.invoke resolved.
ServiceEpilogue(w) == log(log(progress(w, "5/5"), "success"), "success")

\* The controller's catch block.
OnServiceError_FinalOnly(w, msg) == finalFailure(w, msg)
OnServiceError(w, msg) == finalFailure(logError(w, msg), msg)

StreamInit ==
  /\ RestUnused
  /\ JobUnused
  /\ PoolUnused
  /\ GraphUnused
  /\ WfUnused
  /\ ValUnused
  /\ ctl = "idle"
  /\ sw = NewWriter
  /\ inv = "none"
  /\ apos = [n \in AgentNodes |-> "ready"]
  /\ agentWrites = 0
  /\ errMsg = ""
  /\ exitPath = "none"

\* validateIdea up to: await validateIdeaService(input, streamWriter); a body
\* that fails the schema is answered with a 400 and no StreamWriter is made.
ControllerReceives(valid) ==
  /\ ctl = "idle"
  /\ IF valid
     THEN /\ ctl' = "awaitService"
          /\ sw' = ServicePrelude(log(NewWriter, "info"))
          /\ inv' = "agents"
     ELSE /\ ctl' = "badRequest"
          /\ UNCHANGED <<sw, inv>>
  /\ UNCHANGED <<apos, agentWrites, errMsg, exitPath>>
  /\ UNCHANGED notStream

\* An agent node is called: agentStatus started and its first log line.
AgentBegins(n) ==
  /\ inv = "agents"
  /\ apos[n] = "ready"
  /\ apos' = [apos EXCEPT ![n] = "running"]
  /\ sw' = log(agentStatus(sw, "started"), "info")
  /\ UNCHANGED <<ctl, inv, agentWrites, errMsg, exitPath>>
  /\ UNCHANGED notStream

\* A log line of the tool loop or before the synthesis.  The agent runs on
\* whatever became of graph.invoke.
AgentLogs(n, level) ==
  /\ apos[n] = "running"
  /\ agentWrites < MaxAgentWrites
  /\ agentWrites' = agentWrites + 1
  /\ sw' = log(sw, level)
  /\ UNCHANGED <<ctl, inv, apos, errMsg, exitPath>>
  /\ UNCHANGED notStream

\* The synthesis answered: the last log line, agentStatus completed, return.
AgentEnds(n) ==
  /\ apos[n] = "running"
  /\ apos' = [apos EXCEPT ![n] = "returned"]
  /\ sw' = agentStatus(log(sw, "success"), "completed")
  /\ UNCHANGED <<ctl, inv, agentWrites, errMsg, exitPath>>
  /\ UNCHANGED notStream

\* A call of the agent rejected: the node throws and writes nothing.
AgentBreaks(n) ==
  /\ apos[n] = "running"
  /\ apos' = [apos EXCEPT ![n] = "threw"]
  /\ UNCHANGED <<ctl, sw, inv, agentWrites, errMsg, exitPath>>
  /\ UNCHANGED notStream

\* graph.invoke rejects with the error of an agent that threw.
InvokeRejects ==
  /\ inv = "agents"
  /\ \E n \in AgentNodes : apos[n] = "threw"
  /\ inv' = "rejected"
  /\ errMsg' = "agent call failed"
  /\ UNCHANGED <<ctl, sw, apos, agentWrites, exitPath>>
  /\ UNCHANGED notStream

\* barrierNode, after the four agents returned.
BarrierWrites ==
  /\ inv = "agents"
  /\ \A n \in AgentNodes : apos[n] = "returned"
  /\ inv' = "barrier"
  /\ sw' = progress(log(log(sw, "info"), "success"), "4/5")
  /\ UNCHANGED <<ctl, apos, agentWrites, errMsg, exitPath>>
  /\ UNCHANGED notStream

\* supervisorNode up to its model.invoke.
SupervisorWrites ==
  /\ inv = "barrier"
  /\ inv' = "supervisor"
  /\ sw' = log(log(sw, "info"), "info")
  /\ UNCHANGED <<ctl, apos, agentWrites, errMsg, exitPath>>
  /\ UNCHANGED notStream

\* supervisorNode's model.invoke answered: its last log line; graph.invoke resolves.
SupervisorEnds ==
  /\ inv = "supervisor"
  /\ inv' = "resolved"
  /\ sw' = log(sw, "success")
  /\ UNCHANGED <<ctl, apos, agentWrites, errMsg, exitPath>>
  /\ UNCHANGED notStream

\* supervisorNode's model.invoke rejected: graph.invoke rejects.
SupervisorBreaks ==
  /\ inv = "supervisor"
  /\ inv' = "rejected"
  /\ errMsg' = "supervisor call failed"
  /\ UNCHANGED <<ctl, sw, apos, agentWrites, exitPath>>
  /\ UNCHANGED notStream

\* The service returned: final({success: true}), then the finally block.
ControllerOnResult ==
  /\ ctl = "awaitService"
  /\ inv = "resolved"
  /\ ctl' = "done"
  /\ exitPath' = "success"
  /\ sw' = end(finalSuccess(ServiceEpilogue(sw)))
  /\ UNCHANGED <<inv, apos, agentWrites, errMsg>>
  /\ UNCHANGED notStream

\* The service rejected: the catch block, then the finally block.
ControllerOnError ==
  /\ ctl = "awaitService"
  /\ inv = "rejected"
  /\ ctl' = "done"
  /\ exitPath' = "failure"
  /\ sw' = end(OnServiceError(sw, errMsg))
  /\ UNCHANGED <<inv, apos, agentWrites, errMsg>>
  /\ UNCHANGED notStream

\* Whoever holds the StreamWriter calls end() once more.
EndCalledAgain ==
  /\ ctl = "done"
  /\ sw.endCalls < MaxEndCalls
  /\ sw' = end(sw)
  /\ UNCHANGED <<ctl, inv, apos, agentWrites, errMsg, exitPath>>
  /\ UNCHANGED notStream

StreamNext ==
  \/ \E valid \in BOOLEAN : ControllerReceives(valid)
  \/ \E n \in AgentNodes : AgentBegins(n)
  \/ \E n \in AgentNodes : \E level \in {"info", "success"} : AgentLogs(n, level)
  \/ \E n \in AgentNodes : AgentEnds(n)
  \/ \E n \in AgentNodes : AgentBreaks(n)
  \/ InvokeRejects
  \/ BarrierWrites
  \/ SupervisorWrites
  \/ SupervisorEnds
  \/ SupervisorBreaks
  \/ ControllerOnResult
  \/ ControllerOnError
  \/ EndCalledAgain

StreamSpec == StreamInit /\ [][StreamNext]_vars

\* While a call of an agent or of the supervisor is pending it is answered
\* or rejected, and the runtime and the controller's continuation are
\* scheduled: one of these steps is eventually taken.
StreamProgress ==
  \/ \E n \in AgentNodes : AgentBegins(n)
  \/ \E n \in AgentNodes : AgentEnds(n)
  \/ \E n \in AgentNodes : AgentBreaks(n)
  \/ InvokeRejects
  \/ BarrierWrites
  \/ SupervisorWrites
  \/ SupervisorEnds
  \/ SupervisorBreaks
  \/ ControllerOnResult
  \/ ControllerOnError

StreamFairness == WF_vars(StreamProgress)

FairStreamSpec == StreamInit /\ [][StreamNext]_vars /\ StreamFairness

(***************************************************************************)
(* Claims about the validation response stream.                            *)
(***************************************************************************)
FinalsOn(w) == Len(SelectSeq(w.records, LAMBDA r : r.type = "final"))

\* C11: when validateIdeaService rejects, the stream's records end with a log
\* record of level error carrying the error message, then a final record
\* {success: false, error}, then the stream is closed; no success final record
\* is written in that run.
C11_FailureEndsWithErrorThenFinal ==
  exitPath = "failure" =>
    LET r == sw.records
        k == Len(r)
    IN /\ k >= 2
       /\ errMsg # ""
       /\ r[k - 1] = Rec("log", "error", errMsg)
       /\ r[k] = Rec("final", "failure", errMsg)
       /\ sw.isClosed
       /\ sw.resEnds = 1
       /\ \A i \in 1 .. k : r[i] # Rec("final", "success", "")

C11_Witness ==
  /\ exitPath = "failure"
  /\ errMsg = "supervisor call failed"
  /\ sw.isClosed

\* C12: once a StreamWriter was created end() is eventually called, on the
\* success and on the failure exit path, and the response is ended exactly
\* once however many times end() is called.
C12_EndReachedAndIdempotent ==
  /\ [](/\ ctl \in {"idle", "badRequest", "awaitService", "done"}
        /\ ctl = "done" => sw.endCalls >= 1
        /\ sw.resEnds <= 1
        /\ sw.endCalls >= 1 => (sw.resEnds = 1 /\ sw.isClosed))
  /\ (ctl = "awaitService" ~> (ctl = "done" /\ sw.endCalls >= 1))

C12_Witness ==
  /\ exitPath = "success"
  /\ sw.endCalls >= 2
  /\ sw.resEnds = 1

\* C13: an opened stream carries exactly one final record and it is its last
\* record: nothing is written after end(), even while agents still running
\* after another agent's failure call log/agentStatus on the StreamWriter.
C13_OneFinalAndLast ==
  /\ FinalsOn(sw) <= 1
  /\ FinalsOn(sw) = 1 =>
       /\ sw.records[Len(sw.records)].type = "final"
       /\ sw.isClosed
  /\ sw.isClosed => FinalsOn(sw) = 1
  /\ sw.dropped > 0 => sw.isClosed

C13_Witness ==
  /\ exitPath = "failure"
  /\ sw.dropped > 0
  /\ \E n \in AgentNodes : apos[n] = "running"

(***************************************************************************)
(* processVideoAnalysis, the handler of the video-analysis queue.  The     *)
(* events are what it hands to socketService; the workflow it awaits is    *)
(* the analysis graph above, run with the job's jobId.                     *)
(***************************************************************************)
MaxFetched == 1

FetchFailedMsg == "Failed to fetch comments"
NoCommentsMsg == "No comments found for this video"
UpdateFailedMsg == "job.updateProgress rejected"
WorkflowFailedMsg == "executeAnalysisWorkflow rejected"

\* socketService.emitError({jobId, error, ...}), after the progress events in p
emitError(events, msg, p) == Append(events, [error |-> msg, after |-> p.count])

\* The catch block: emitError({error: error.message}), then throw error.
OnJobError_NoEmit(events, msg, p) == events
OnJobError(events, msg, p) == emitError(events, msg, p)

\* if (allComments.length === 0)
CommentsMissing_Never(n) == FALSE
CommentsMissing(n) == n = 0

\* transcriptData: the fulfilled value, or { text: '', available: false }
TranscriptData_RejectedIsAvailable(t) ==
  IF t = "unavailable" THEN [text |-> "", available |-> FALSE]
  ELSE [text |-> "transcript", available |-> TRUE]
TranscriptData(t) ==
  IF t = "available" THEN [text |-> "transcript", available |-> TRUE]
  ELSE [text |-> "", available |-> FALSE]

\* { jobId, videoId, status: 'completed', ...result }
JobResult(result) == [status |-> "completed", result |-> result]

\* The last progress event, then emitCompletion.
FinishEvents_CompletionFirst(p, result) ==
  [prog |-> emitProgress(p, "completed", 100),
   completion |-> [result |-> JobResult(result), after |-> p.count]]
FinishEvents(p, result) ==
  [prog |-> emitProgress(p, "completed", 100),
   completion |-> [result |-> JobResult(result),
                   after |-> emitProgress(p, "completed", 100).count]]

JobInit ==
  /\ RestUnused
  /\ PoolUnused
  /\ ValUnused
  /\ StreamUnused
  /\ gphase = "idle"
  /\ task = [n \in AnalysisNodes |-> "idle"]
  /\ pending = [n \in AnalysisNodes |-> NoUpdate]
  /\ started = [n \in AnalysisNodes |-> 0]
  /\ finished = [n \in AnalysisNodes |-> 0]
  /\ numComments = 0
  /\ hasTranscript = FALSE
  /\ astate = InitialAnalysisState
  /\ llmFailed = {}
  /\ wfResult = NoResult
  /\ jobId = "job-1"
  /\ jpc = "start"
  /\ commentsRes = "pending"
  /\ transcriptRes = "pending"
  /\ wfArgs = <<>>
  /\ prog = NoProgress
  /\ errorEvents = <<>>
  /\ completionEvents = <<>>
  /\ thrown = ""
  /\ returned = <<>>

\* What the job leaves alone while the workflow is not running.
JobIdle == <<poolVars, valVars, streamVars, graphVars, astate, llmFailed, wfResult, jobId,
             restVars>>

\* Up to: await job.updateProgress(10)
JobStarts ==
  /\ jpc = "start"
  /\ jpc' = "awaitProgress10"
  /\ prog' = emitProgress(prog, "queued", 0)
  /\ UNCHANGED <<commentsRes, transcriptRes, wfArgs, errorEvents, completionEvents,
                 thrown, returned, numComments, hasTranscript>>
  /\ UNCHANGED JobIdle

\* Up to: await Promise.allSettled([fetchAllComments, fetchTranscript])
JobFetches ==
  /\ jpc = "awaitProgress10"
  /\ jpc' = "awaitFetch"
  /\ prog' = emitProgress(prog, "fetching_comments", 10)
  /\ UNCHANGED <<commentsRes, transcriptRes, wfArgs, errorEvents, completionEvents,
                 thrown, returned, numComments, hasTranscript>>
  /\ UNCHANGED JobIdle

\* await job.updateProgress(..) rejected: the catch block.
UpdateProgressFails ==
  /\ jpc \in {"awaitProgress10", "awaitProgress40", "awaitProgress100"}
  /\ jpc' = "threw"
  /\ thrown' = UpdateFailedMsg
  /\ errorEvents' = OnJobError(errorEvents, UpdateFailedMsg, prog)
  /\ UNCHANGED <<commentsRes, transcriptRes, wfArgs, prog, completionEvents,
                 returned, numComments, hasTranscript>>
  /\ UNCHANGED JobIdle

\* Both fetches settled: comments c (n of them when fulfilled), transcript t.
\* Up to the throw, or to: await job.updateProgress(40)
FetchesSettle(c, n, t) ==
  /\ jpc = "awaitFetch"
  /\ c = "rejected" => n = 0
  /\ commentsRes' = c
  /\ transcriptRes' = t
  /\ numComments' = n
  /\ IF c = "rejected"
     THEN /\ errorEvents' = OnJobError(emitError(errorEvents, FetchFailedMsg, prog),
                                       FetchFailedMsg, prog)
          /\ thrown' = FetchFailedMsg
          /\ jpc' = "threw"
          /\ UNCHANGED prog
     ELSE LET p == emitProgress(emitProgress(emitProgress(prog,
                     "fetching_comments", 20),
                     "fetching_transcript", 25),
                     "fetching_transcript", 30)
          IN /\ prog' = p
             /\ IF CommentsMissing(n)
                THEN /\ errorEvents' = OnJobError(emitError(errorEvents, NoCommentsMsg, p),
                                                  NoCommentsMsg, p)
                     /\ thrown' = NoCommentsMsg
                     /\ jpc' = "threw"
                ELSE /\ jpc' = "awaitProgress40"
                     /\ UNCHANGED <<errorEvents, thrown>>
  /\ UNCHANGED <<wfArgs, completionEvents, returned, hasTranscript>>
  /\ UNCHANGED JobIdle

\* Up to: await graph.invoke(initialState) inside executeAnalysisWorkflow
JobCallsWorkflow ==
  /\ jpc = "awaitProgress40"
  /\ jpc' = "awaitWorkflow"
  /\ prog' = InitialProgressFrom(emitProgress(prog, "classifying_comments", 40))
  /\ wfArgs' = [comments |-> numComments,
                transcript |-> TranscriptData(transcriptRes).text,
                hasTranscript |-> TranscriptData(transcriptRes).available,
                jobId |-> jobId]
  /\ hasTranscript' = TranscriptData(transcriptRes).available
  /\ gphase = "idle"
  /\ InvokeAnalysisGraph
  /\ UNCHANGED <<commentsRes, transcriptRes, errorEvents, completionEvents,
                 thrown, returned, numComments, astate, llmFailed, wfResult, jobId>>
  /\ UNCHANGED <<poolVars, valVars, streamVars, restVars>>

\* executeAnalysisWorkflow settled.  Up to: await job.updateProgress(100), or
\* the catch block.
WorkflowSettles ==
  /\ jpc = "awaitWorkflow"
  /\ gphase \in {"done", "failed"}
  /\ IF gphase = "done"
     THEN /\ jpc' = "awaitProgress100"
          /\ UNCHANGED <<errorEvents, thrown>>
     ELSE /\ jpc' = "threw"
          /\ thrown' = WorkflowFailedMsg
          /\ errorEvents' = OnJobError(errorEvents, WorkflowFailedMsg, prog)
  /\ UNCHANGED <<commentsRes, transcriptRes, wfArgs, prog, completionEvents,
                 returned, numComments, hasTranscript>>
  /\ UNCHANGED JobIdle

\* The completed progress event, emitCompletion, return.
JobFinishes ==
  /\ jpc = "awaitProgress100"
  /\ jpc' = "returned"
  /\ prog' = FinishEvents(prog, wfResult).prog
  /\ completionEvents' = Append(completionEvents, FinishEvents(prog, wfResult).completion)
  /\ returned' = JobResult(wfResult)
  /\ UNCHANGED <<commentsRes, transcriptRes, wfArgs, errorEvents, thrown,
                 numComments, hasTranscript>>
  /\ UNCHANGED JobIdle

JobNext ==
  \/ JobStarts
  \/ JobFetches
  \/ UpdateProgressFails
  \/ \E c \in {"rejected", "fulfilled"} : \E n \in {0, MaxFetched} :
       \E t \in {"rejected", "unavailable", "available"} : FetchesSettle(c, n, t)
  \/ JobCallsWorkflow
  \/ ClassifyStarts
  \/ ClassifyReturns
  \/ SeparateRuns
  \/ \E n \in InsightNodes : InsightStarts(n)
  \/ \E n \in InsightNodes : InsightLlmAnswers(n)
  \/ \E n \in InsightNodes : InsightLlmFails(n)
  \/ SummarizeRuns
  \/ AnalysisSuperstepEnds
  \/ WorkflowSettles
  \/ JobFinishes

JobSpec == JobInit /\ [][JobNext]_vars

(***************************************************************************)
(* Claims about processVideoAnalysis.                                      *)
(***************************************************************************)

\* C14: processVideoAnalysis throws, and the analysis workflow is never
\* started, whenever the comments fetch fails or returns zero comments; for
\* zero comments the message is "No comments found for this video".
C14_NoCommentsIsFatal ==
  (commentsRes = "rejected" \/ (commentsRes = "fulfilled" /\ numComments = 0)) =>
    /\ jpc = "threw"
    /\ gphase = "idle"
    /\ \A n \in AnalysisNodes : started[n] = 0
    /\ commentsRes = "rejected" => thrown = FetchFailedMsg
    /\ commentsRes = "fulfilled" => thrown = "No comments found for this video"

C14_Witness ==
  /\ commentsRes = "fulfilled"
  /\ numComments = 0
  /\ transcriptRes = "available"
  /\ jpc = "threw"

\* C15: a rejected or unavailable transcript never fails the job: with
\* comments present the workflow is called with an empty transcript and
\* hasTranscript = false, and the result of the completed job carries
\* hasTranscript = false.
C15_TranscriptFailureIsNotFatal ==
  (transcriptRes \in {"rejected", "unavailable"}
   /\ commentsRes = "fulfilled" /\ numComments > 0) =>
    /\ jpc = "threw" => thrown \in {UpdateFailedMsg, WorkflowFailedMsg}
    /\ jpc \in {"awaitWorkflow", "awaitProgress100", "returned"} =>
         /\ wfArgs.transcript = ""
         /\ wfArgs.hasTranscript = FALSE
         /\ hasTranscript = FALSE
    /\ jpc = "returned" => returned.result.hasTranscript = FALSE

C15_Witness ==
  /\ transcriptRes = "rejected"
  /\ jpc = "returned"
  /\ returned.result.hasTranscript = FALSE

\* C16: on success exactly one completion event is emitted, after every
\* progress event of the job, the last of which has stage completed and
\* percentage 100, and it carries the value the handler returns.
C16_OneCompletionAfterProgress ==
  /\ Len(completionEvents) <= 1
  /\ jpc = "returned" <=> Len(completionEvents) = 1
  /\ jpc = "returned" =>
       /\ completionEvents[1].after = prog.count
       /\ prog.stage = "completed"
       /\ prog.last = 100
       /\ completionEvents[1].result = returned
       /\ returned = JobResult(wfResult)

C16_Witness ==
  /\ jpc = "returned"
  /\ llmFailed # {}
  /\ Len(completionEvents) = 1

\* C17: on any failure an error event is emitted and the same error is
\* rethrown; a job never emits both a completion and an error event, and
\* once it failed it emits no further progress event.
C17_FailureEmitsAndRethrows ==
  /\ jpc = "threw" =>
       /\ thrown # ""
       /\ errorEvents # <<>>
       /\ errorEvents[Len(errorEvents)].error = thrown
  /\ ~(errorEvents # <<>> /\ completionEvents # <<>>)
  /\ errorEvents # <<>> =>
       /\ jpc = "threw"
       /\ gphase # "running"
       /\ \A i \in 1 .. Len(errorEvents) : errorEvents[i].after = prog.count
  /\ thrown # "" <=> jpc = "threw"

C17_Witness ==
  /\ jpc = "threw"
  /\ thrown = UpdateFailedMsg
  /\ gphase = "done"

\* C18: a job that fails emits at most one error event for that failure,
\* whichever failure path is taken.
C18_AtMostOneErrorEvent == Len(errorEvents) <= 1

\* C19: the percentages of a job's progress events, in emission order, never
\* decrease.
C19_PercentagesNeverDecrease == ~prog.fell

\* C20: during the classification stage of a job run with a jobId, a
\* classifying_comments progress event is emitted after each successfully
\* classified batch.
C20_BatchProgressEmitted == Len(batchEvents) = completedBatches

(***************************************************************************)
(* The pure functions of the analysis: calculateOptimalBatching and the    *)
(* batches classifyCommentsNode cuts with its result, separateCommentsNode *)
(* and calculateSummaryNode, each applied to one input.                    *)
(***************************************************************************)
MIN_BATCH_SIZE == 10
MAX_WORKERS == 8

Max(a, b) == IF a >= b THEN a ELSE b
Min(a, b) == IF a <= b THEN a ELSE b

calculateOptimalBatching_NoSmallCase(totalComments) ==
  IF totalComments > 4000
  THEN [batchSize |-> 500, numWorkers |-> MAX_WORKERS]
  ELSE [batchSize |-> CeilDiv(totalComments, MAX_WORKERS), numWorkers |-> MAX_WORKERS]
calculateOptimalBatching_FloorIdeal(totalComments) ==
  IF totalComments > 4000
  THEN [batchSize |-> 500, numWorkers |-> MAX_WORKERS]
  ELSE LET idealBatchSize == totalComments \div MAX_WORKERS
       IN IF idealBatchSize < MIN_BATCH_SIZE
          THEN LET optimalWorkers == Max(1, totalComments \div MIN_BATCH_SIZE)
               IN [batchSize |-> CeilDiv(totalComments, optimalWorkers),
                   numWorkers |-> optimalWorkers]
          ELSE [batchSize |-> idealBatchSize, numWorkers |-> MAX_WORKERS]
calculateOptimalBatching(totalComments) ==
  IF totalComments > 4000
  THEN [batchSize |-> 500, numWorkers |-> MAX_WORKERS]
  ELSE LET idealBatchSize == CeilDiv(totalComments, MAX_WORKERS)
       IN IF idealBatchSize < MIN_BATCH_SIZE
          THEN LET optimalWorkers == Max(1, totalComments \div MIN_BATCH_SIZE)
               IN [batchSize |-> CeilDiv(totalComments, optimalWorkers),
                   numWorkers |-> optimalWorkers]
          ELSE [batchSize |-> idealBatchSize, numWorkers |-> MAX_WORKERS]

\* for (let i = 0; i < totalComments; i += batchSize)
\*   batches.push(state.comments.slice(i, i + batchSize))
\* A batch is kept as the first and the last index of its slice.
RECURSIVE BatchesFrom(_, _, _)
BatchesFrom(i, totalComments, batchSize) ==
  IF i < totalComments
  THEN <<[first |-> i, last |-> Min(i + batchSize, totalComments) - 1]>>
       \o BatchesFrom(i + batchSize, totalComments, batchSize)
  ELSE <<>>

\* The batches classifyCommentsNode hands to the pool (none for no comments).
CreateBatches(totalComments, batchSize) ==
  IF totalComments = 0 THEN <<>> ELSE BatchesFrom(0, totalComments, batchSize)

\* CommentSentimentSchema: {comment: string, sentiment: positive | negative | neutral}
ClassifiedComments ==
  [comment : {"a", "b"}, sentiment : {"positive", "negative", "neutral"}]

\* agentsCompleted starts as its channel's default, new Set().
NoPureOut == [batching |-> Undefined, batches |-> Undefined,
              separated |-> Undefined, summary |-> Undefined,
              agentsCompleted |-> {}]

\* The values written to agentsCompleted: each agent's name as a string, and
\* a Set of names (the reducer accepts both).
CompletionUpdates ==
  {AsString(RequiredAgents[i]) : i \in DOMAIN RequiredAgents}
  \cup {AsSet({"trend", "strategy"})}

PureInit ==
  /\ PoolUnused
  /\ GraphUnused
  /\ WfUnused
  /\ ValUnused
  /\ StreamUnused
  /\ JobUnused
  /\ KeyUnused
  /\ FetchUnused
  /\ MoreUnused
  /\ \/ pureFn = "batching" /\ pureArg \in 0 .. MaxTotalComments
     \/ pureFn = "separate" /\ pureArg \in SeqsUpTo(ClassifiedComments, MaxListLen)
     \/ pureFn = "reduce" /\ pureArg \in SeqsUpTo(CompletionUpdates, MaxUpdates)
  /\ pureStep = 0
  /\ pureOut = NoPureOut

notPure == <<poolVars, graphVars, wfVars, valVars, streamVars, jobVars, keyVars,
             fetchVars, moreVars>>

BatchingApplied ==
  /\ pureFn = "batching"
  /\ pureStep = 0
  /\ pureStep' = 1
  /\ pureOut' = [pureOut EXCEPT !.batching = calculateOptimalBatching(pureArg)]
  /\ UNCHANGED <<pureFn, pureArg>>
  /\ UNCHANGED notPure

BatchesCut ==
  /\ pureFn = "batching"
  /\ pureStep = 1
  /\ pureStep' = 2
  /\ pureOut' = [pureOut EXCEPT
                   !.batches = CreateBatches(pureArg, pureOut.batching.batchSize)]
  /\ UNCHANGED <<pureFn, pureArg>>
  /\ UNCHANGED notPure

SeparateApplied ==
  /\ pureFn = "separate"
  /\ pureStep = 0
  /\ pureStep' = 1
  /\ pureOut' = [pureOut EXCEPT
                   !.separated = separateCommentsNode([classifiedComments |-> pureArg])]
  /\ UNCHANGED <<pureFn, pureArg>>
  /\ UNCHANGED notPure

\* calculateSummaryNode on the state separateCommentsNode left.
SummarizeApplied ==
  /\ pureFn = "separate"
  /\ pureStep = 1
  /\ pureStep' = 2
  /\ pureOut' = [pureOut EXCEPT
                   !.summary = calculateSummaryNode(
                      [classifiedComments |-> pureArg,
                       positiveComments |-> pureOut.separated.positiveComments,
                       negativeComments |-> pureOut.separated.negativeComments,
                       neutralComments |-> pureOut.separated.neutralComments])]
  /\ UNCHANGED <<pureFn, pureArg>>
  /\ UNCHANGED notPure

\* The runtime reduces the next update into the agentsCompleted channel.
ReducerApplied ==
  /\ pureFn = "reduce"
  /\ pureStep < Len(pureArg)
  /\ pureStep' = pureStep + 1
  /\ pureOut' = [pureOut EXCEPT
                   !.agentsCompleted = agentsCompletedReducer(@, pureArg[pureStep + 1])]
  /\ UNCHANGED <<pureFn, pureArg>>
  /\ UNCHANGED notPure

PureNext ==
  \/ ReducerApplied
  \/ BatchingApplied
  \/ BatchesCut
  \/ SeparateApplied
  \/ SummarizeApplied

PureSpec == PureInit /\ [][PureNext]_vars

(***************************************************************************)
(* Claims about the pure functions.                                        *)
(***************************************************************************)

\* C22: for every totalComments of the range (0, 1, 10, 4000, 4001 and 10000
\* included) calculateOptimalBatching returns numWorkers <= 8 and, when
\* totalComments >= 10, batchSize >= 10; and the batches classifyCommentsNode
\* cuts with that batchSize are consecutive non-empty slices that cover the
\* comments from the first to the last, so their sizes sum to totalComments.
C22_BatchingWithinLimits ==
  (pureFn = "batching" /\ pureStep = 2) =>
    LET b == pureOut.batches
    IN /\ pureOut.batching.numWorkers <= 8
       /\ pureArg >= 10 => pureOut.batching.batchSize >= 10
       /\ SumSeq([i \in DOMAIN b |-> b[i].last - b[i].first + 1]) = pureArg
       /\ \A i \in DOMAIN b :
            /\ b[i].first <= b[i].last
            /\ b[i].first = IF i = 1 THEN 0 ELSE b[i - 1].last + 1
       /\ pureArg > 0 => b[Len(b)].last = pureArg - 1
       /\ pureArg = 0 => b = <<>>

\* C22 witness: 4001 comments were cut into eight batches of 500 and one of 1.
C22_Witness ==
  /\ pureFn = "batching"
  /\ pureStep = 2
  /\ pureArg = 4001
  /\ Len(pureOut.batches) = 9
  /\ pureOut.batches[9].first = pureOut.batches[9].last

CountIn(x, s) == Cardinality({i \in DOMAIN s : s[i] = x})

RECURSIVE IsSubsequence(_, _)
IsSubsequence(s, t) ==
  IF s = <<>> THEN TRUE
  ELSE IF t = <<>> THEN FALSE
  ELSE IF Head(s) = Head(t) THEN IsSubsequence(Tail(s), Tail(t))
  ELSE IsSubsequence(s, Tail(t))

\* C23: separateCommentsNode partitions the classified comments into positive,
\* negative and neutral lists that are pairwise disjoint, whose multiset union
\* is the input, whose sizes sum to the input length, and each of which keeps
\* the relative order of the input.
C23_SeparateIsPartition ==
  (pureFn = "separate" /\ pureStep >= 1) =>
    LET pos == pureOut.separated.positiveComments
        neg == pureOut.separated.negativeComments
        neu == pureOut.separated.neutralComments
    IN /\ SeqSet(pos) \cap SeqSet(neg) = {}
       /\ SeqSet(pos) \cap SeqSet(neu) = {}
       /\ SeqSet(neg) \cap SeqSet(neu) = {}
       /\ \A c \in ClassifiedComments :
            CountIn(c, pos) + CountIn(c, neg) + CountIn(c, neu) = CountIn(c, pureArg)
       /\ Len(pos) + Len(neg) + Len(neu) = Len(pureArg)
       /\ IsSubsequence(pos, pureArg)
       /\ IsSubsequence(neg, pureArg)
       /\ IsSubsequence(neu, pureArg)
       /\ \A i \in DOMAIN pos : pos[i].sentiment = "positive"
       /\ \A i \in DOMAIN neg : neg[i].sentiment = "negative"
       /\ \A i \in DOMAIN neu : neu[i].sentiment = "neutral"

\* C23 witness: two different positive comments with a negative one between
\* them were separated.
C23_Witness ==
  /\ pureFn = "separate"
  /\ pureStep >= 1
  /\ Len(pureArg) = 3
  /\ pureArg[2].sentiment = "negative"
  /\ Len(pureOut.separated.positiveComments) = 2
  /\ pureOut.separated.positiveComments[1] # pureOut.separated.positiveComments[2]

HowMany(label) == Cardinality({i \in DOMAIN pureArg : pureArg[i].sentiment = label})

\* pct is x/total*100 rounded to the nearest integer
IsRounded(pct, x, total) ==
  /\ 2 * total * pct <= 200 * x + total
  /\ 200 * x + total < 2 * total * (pct + 1)
  /\ pct >= 0 /\ pct <= 100

\* C24: for N = p + n + u classified comments with N > 0, calculateSummaryNode
\* returns the counts p, n, u, for each bucket the percentage round(x/N*100),
\* within 0..100, and totalProcessed = N; for N = 0 it returns all-zero counts
\* and percentages and totalProcessed = 0.
C24_SummaryCountsAndPercentages ==
  (pureFn = "separate" /\ pureStep = 2) =>
    LET N == Len(pureArg)
        sm == pureOut.summary.summary
        ok(bucket, x) ==
          /\ bucket.count = x
          /\ IF N = 0 THEN bucket.percentage = 0
             ELSE IsRounded(bucket.percentage, x, N)
    IN /\ pureOut.summary.totalProcessed = N
       /\ ok(sm.positive, HowMany("positive"))
       /\ ok(sm.negative, HowMany("negative"))
       /\ ok(sm.neutral, HowMany("neutral"))

\* C24 witness: three comments, one of each label, were summarized as 33, 33
\* and 33 per cent.
C24_Witness ==
  /\ pureFn = "separate"
  /\ pureStep = 2
  /\ pureOut.summary.totalProcessed = 3
  /\ pureOut.summary.summary.positive.percentage = 33
  /\ pureOut.summary.summary.negative.percentage = 33
  /\ pureOut.summary.summary.neutral.percentage = 33

\* C30: calculateOptimalBatching is the stated policy: above 4000 comments it
\* returns (500, 8); otherwise, with ideal = ceil(totalComments/8), if
\* ideal < 10 it returns numWorkers = max(1, floor(totalComments/10)) and
\* batchSize = ceil(totalComments/numWorkers), else (ideal, 8).
IsCeil(k, a, b) == b * k >= a /\ b * (k - 1) < a
IsFloor(k, a, b) == b * k <= a /\ b * (k + 1) > a

C30_BatchingIsThePolicy ==
  (pureFn = "batching" /\ pureStep >= 1) =>
    LET r == pureOut.batching
    IN IF pureArg > 4000
       THEN r.batchSize = 500 /\ r.numWorkers = 8
       ELSE \E ideal \in 0 .. 500 :
              /\ IsCeil(ideal, pureArg, 8)
              /\ IF ideal < 10
                 THEN /\ \/ r.numWorkers = 1 /\ pureArg < 10
                         \/ r.numWorkers >= 1 /\ IsFloor(r.numWorkers, pureArg, 10)
                      /\ IsCeil(r.batchSize, pureArg, r.numWorkers)
                 ELSE r.batchSize = ideal /\ r.numWorkers = 8

\* C30 witness: the policy was applied to 72 comments, the largest count for
\* which the number of workers is reduced (to 7, with batches of 11).
C30_Witness ==
  /\ pureFn = "batching"
  /\ pureStep >= 1
  /\ pureArg = 72
  /\ pureOut.batching = [batchSize |-> 11, numWorkers |-> 7]

(***************************************************************************)
(* APIKeyRotator: the one keyRotator of the process, called by the insight *)
(* nodes of every running job (getNextKey) and by the pool workers         *)
(* (getKeyForWorker).  Both methods are synchronous.                       *)
(***************************************************************************)
\* process.env.GEMINI_API_KEY1 .. GEMINI_API_KEY8, the unset ones filtered out
KeyNames == <<"key-1", "key-2", "key-3", "key-4", "key-5", "key-6", "key-7", "key-8">>

\* API_KEYS[i], for the array index i (from 0)
API_KEYS(i) == KeyNames[i + 1]

\* The jobs whose insight nodes are running in this process.
KeyCallers == {"job-1", "job-2"}

\* this.currentIndex = (this.currentIndex + 1) % API_KEYS.length
NextIndex_Stuck(i) == i
NextIndex(i) == (i + 1) % keyCount

\* return API_KEYS[workerIndex % API_KEYS.length]
getKeyForWorker_FromCursor(workerIndex) == API_KEYS((currentIndex + workerIndex) % keyCount)
getKeyForWorker(workerIndex) == API_KEYS(workerIndex % keyCount)

KeyInit ==
  /\ PoolUnused
  /\ GraphUnused
  /\ WfUnused
  /\ ValUnused
  /\ StreamUnused
  /\ JobUnused
  /\ PureUnused
  /\ FetchUnused
  /\ MoreUnused
  /\ keyCount \in 1 .. MaxKeys        \* the module throws on load if there is no key
  /\ currentIndex = 0
  /\ handedKeys = <<>>
  /\ workerKey = [w \in WorkerIds |-> Undefined]
  /\ keyUses = [w \in WorkerIds |-> <<>>]

notKey == <<poolVars, graphVars, wfVars, valVars, streamVars, jobVars, pureVars,
            fetchVars, moreVars>>

\* createModel(schema, keyRotator.getNextKey()) in an insight node of job c
GetNextKey(c) ==
  /\ keyCount > 0
  /\ Len(handedKeys) < MaxKeyCalls
  /\ handedKeys' = Append(handedKeys, [caller |-> c, key |-> API_KEYS(currentIndex)])
  /\ currentIndex' = NextIndex(currentIndex)
  /\ UNCHANGED <<keyCount, workerKey, keyUses>>
  /\ UNCHANGED notKey

\* const apiKey = keyRotator.getKeyForWorker(workerId), once, before the loop
WorkerTakesKey(w) ==
  /\ keyCount > 0
  /\ workerKey[w] = Undefined
  /\ workerKey' = [workerKey EXCEPT ![w] = getKeyForWorker(w)]
  /\ UNCHANGED <<keyCount, currentIndex, handedKeys, keyUses>>
  /\ UNCHANGED notKey

\* processSingleBatch(job, apiKey) for the next job of the queue, an original
\* batch or a re-queued half
WorkerSendsBatch(w) ==
  /\ keyCount > 0
  /\ workerKey[w] # Undefined
  /\ Len(keyUses[w]) < MaxKeyUses
  /\ keyUses' = [keyUses EXCEPT ![w] = Append(@, workerKey[w])]
  /\ UNCHANGED <<keyCount, currentIndex, handedKeys, workerKey>>
  /\ UNCHANGED notKey

KeyNext ==
  \/ \E c \in KeyCallers : GetNextKey(c)
  \/ \E w \in WorkerIds : WorkerTakesKey(w)
  \/ \E w \in WorkerIds : WorkerSendsBatch(w)

KeySpec == KeyInit /\ [][KeyNext]_vars

(***************************************************************************)
(* Claims about the key rotator.                                           *)
(***************************************************************************)

\* C27: for a pool of m distinct keys the rotation cursor stays in 0..m-1 and
\* any m consecutive getNextKey calls of the process, whichever jobs made
\* them, return m different keys: each key once before any repeats.
C27_RotationCyclesThroughPool ==
  keyCount > 0 =>
    /\ currentIndex \in 0 .. (keyCount - 1)
    /\ \A i \in 1 .. (Len(handedKeys) - keyCount + 1) :
         Cardinality({handedKeys[j].key : j \in i .. (i + keyCount - 1)}) = keyCount

\* C27 witness: with two or more keys, the calls of two jobs interleaved, the
\* rotation came round to the first key again.
C27_Witness ==
  /\ keyCount >= 2
  /\ Len(handedKeys) > keyCount
  /\ handedKeys[keyCount + 1].key = handedKeys[1].key
  /\ handedKeys[1].caller # handedKeys[2].caller

\* C28: getKeyForWorker(i) returns pool[i mod m] whatever getNextKey calls
\* were made before, and leaves the rotation cursor unchanged; a pool worker
\* sends every batch it processes with that one credential.
C28_WorkerKeyIsStable ==
  /\ [](keyCount > 0 =>
          \A w \in WorkerIds :
            /\ workerKey[w] # "undefined" => workerKey[w] = KeyNames[(w % keyCount) + 1]
            /\ \A i \in DOMAIN keyUses[w] : keyUses[w][i] = KeyNames[(w % keyCount) + 1])
  /\ [][\A w \in WorkerIds : WorkerTakesKey(w) => currentIndex' = currentIndex]_vars

\* C28 witness: after getNextKey had moved the cursor, a worker whose index
\* is beyond the pool took its key and sent two batches with it.
C28_Witness ==
  /\ keyCount > 0
  /\ currentIndex # 0
  /\ \E w \in WorkerIds :
       /\ w >= keyCount - 1
       /\ w > 0
       /\ Len(keyUses[w]) >= 2

(***************************************************************************)
(* YouTubeService.fetchAllComments: the do/while loop over the pages of    *)
(* comment threads, one axios.get per iteration.                           *)
(***************************************************************************)
maxRetries == 3

\* response.data.nextPageToken of each page: a token naming the next page,
\* undefined on the last one.  pageToken starts undefined.
PageTokens == <<Undefined, "page-2", "page-3", "page-4", "page-5">>
PageOf(token) == CHOOSE p \in DOMAIN PageTokens : PageTokens[p] = token
NextPageToken(p) == IF p < totalPages THEN PageTokens[p + 1] ELSE Undefined

\* The HTTP status of a failed request; 0 stands for an error without a
\* response (error.response is undefined).
FailureStatuses == {429, 500, 404, 0}

\* error.response?.status === 429 || error.response?.status >= 500
ShouldRetry(status) == status = 429 \/ status >= 500

\* } while (pageToken); then return comments
LoopTest(token) == IF token # Undefined THEN "request" ELSE "returned"

FetchInit ==
  /\ PoolUnused
  /\ GraphUnused
  /\ WfUnused
  /\ ValUnused
  /\ StreamUnused
  /\ JobUnused
  /\ PureUnused
  /\ KeyUnused
  /\ MoreUnused
  /\ fpc = "request"
  /\ totalPages \in 1 .. MaxPages
  /\ pageToken = Undefined
  /\ retries = 0
  /\ fetchedPages = <<>>
  /\ requestLog = <<>>
  /\ delays = <<>>
  /\ fetchError = ""

notFetch == <<poolVars, graphVars, wfVars, valVars, streamVars, jobVars, pureVars,
              keyVars, moreVars>>

\* axios.get resolved: push the items, take the next token, reset retries,
\* test the loop condition.
RequestSucceeds ==
  /\ fpc = "request"
  /\ LET p == PageOf(pageToken)
     IN /\ requestLog' = Append(requestLog, [page |-> p, status |-> 200])
        /\ fetchedPages' = Append(fetchedPages, p)
        /\ pageToken' = NextPageToken(p)
        /\ fpc' = LoopTest(NextPageToken(p))
  /\ retries' = 0
  /\ UNCHANGED <<totalPages, delays, fetchError>>
  /\ UNCHANGED notFetch

\* axios.get rejected: the inner catch, up to the setTimeout or to the throw
\* (which the outer catch wraps and rethrows).
RequestFails(status) ==
  /\ fpc = "request"
  /\ requestLog' = Append(requestLog, [page |-> PageOf(pageToken), status |-> status])
  /\ IF ShouldRetry(status)
     THEN /\ retries' = retries + 1
          /\ IF retries + 1 >= maxRetries
             THEN /\ fpc' = "threw"
                  /\ fetchError' = "Failed to fetch comments: Failed after 3 retries"
                  /\ UNCHANGED delays
             ELSE /\ fpc' = "delay"
                  /\ delays' = Append(delays, [page |-> PageOf(pageToken),
                                               ms |-> 2000 * (retries + 1)])
                  /\ UNCHANGED fetchError
     ELSE /\ fpc' = "threw"
          /\ fetchError' = "Failed to fetch comments: request failed"
          /\ UNCHANGED <<retries, delays>>
  /\ UNCHANGED <<totalPages, pageToken, fetchedPages>>
  /\ UNCHANGED notFetch

\* The timer fired: the catch block ends and the loop condition is tested.
DelayElapses ==
  /\ fpc = "delay"
  /\ fpc' = LoopTest(pageToken)
  /\ UNCHANGED <<totalPages, pageToken, retries, fetchedPages, requestLog, delays,
                 fetchError>>
  /\ UNCHANGED notFetch

FetchNext ==
  \/ RequestSucceeds
  \/ \E status \in FailureStatuses : RequestFails(status)
  \/ DelayElapses

FetchSpec == FetchInit /\ [][FetchNext]_vars

(***************************************************************************)
(* Claims about fetchAllComments.                                          *)
(***************************************************************************)
Retriable(r) == r.status = 429 \/ r.status \in 500 .. 599

\* The requests made for the page of the last request.
RequestsOfLastPage ==
  {i \in DOMAIN requestLog : requestLog[i].page = requestLog[Len(requestLog)].page}

\* C29: a page request that fails with 429 or a 5xx status is retried, with a
\* growing delay, until it succeeds or the retries are exhausted, and then the
\* fetch fails; a failure with any other status fails the fetch at once,
\* without a retry.  So the fetch returns only after a request that
\* succeeded, a request follows a failed one only if that was a 429 or 5xx,
\* and the fetch fails after a 429 or 5xx only when that page was requested
\* at least 3 times.
C29_RetriesThenFails ==
  /\ fpc = "returned" => requestLog[Len(requestLog)].status = 200
  /\ \A i \in DOMAIN requestLog :
       (requestLog[i].status # 200 /\ ~Retriable(requestLog[i])) =>
         (i = Len(requestLog) /\ fpc = "threw")
  /\ (fpc = "threw" /\ Retriable(requestLog[Len(requestLog)])) =>
       Cardinality(RequestsOfLastPage) >= 3
  /\ \A i, j \in DOMAIN delays :
       (i < j /\ delays[i].page = delays[j].page) => delays[i].ms < delays[j].ms

\* The pages of the video, in page order.
AllPages == [i \in 1 .. totalPages |-> i]

\* C38: fetchAllComments returns the items of every page of the video, in page
\* order, or throws: when it has returned, the pages pushed are pages 1 to
\* totalPages; and a request that follows a 429 or 5xx failure asks for the
\* page of the failed request, the first page included.
C38_AllPagesOrThrows ==
  /\ fpc = "returned" => fetchedPages = AllPages
  /\ fpc # "unused" =>
       \A i \in DOMAIN requestLog :
         (i < Len(requestLog) /\ Retriable(requestLog[i])) =>
           requestLog[i + 1].page = requestLog[i].page
  /\ (fpc = "returned" /\ requestLog # <<>> /\ Retriable(requestLog[Len(requestLog)])) =>
       requestLog[Len(requestLog)].page # 1

(***************************************************************************)
(* YouTubeService.fetchTranscript.  A text is kept as its kind and its     *)
(* length, a chunk as the range of the transcript it was sliced from.      *)
(***************************************************************************)
MAX_LENGTH == 15000
CHUNK_SIZE == 10000
CHUNK_OVERLAP == 1000
CONCURRENT_CHUNKS == 3

\* chunk.slice(0, 2000) + "..."
PrefixLen == 2000
EllipsisLen == 3

\* The transcripts the loader may give, by length.
TranscriptLens ==
  {0, MAX_LENGTH, MAX_LENGTH + 1, 18999, 19000, 19001, 28000, MaxTranscript}

\* The lengths of a chunk's enriched summary and of the merged summary: what
\* the LLM wrote.
SummaryLens == {2000, 9000}
MergedLens == {1, 20000}

Text(kind, len, parts) == [kind |-> kind, len |-> len, parts |-> parts]
EmptyText == Text("empty", 0, <<>>)

\* startIndex += CHUNK_SIZE - CHUNK_OVERLAP
NextStart_PastTheChunk(i) == i + CHUNK_SIZE + CHUNK_OVERLAP
NextStart(i) == i + CHUNK_SIZE - CHUNK_OVERLAP

ChunkLen(ch) == ch.end - ch.start

NoChunkResult(c) == [kind |-> "none", chunk |-> c, len |-> 0]
PendingCall(c) == [kind |-> "pending", chunk |-> c, len |-> 0]
EnrichedSummary(c, len) == [kind |-> "summary", chunk |-> c, len |-> len]

\* catch of a chunk's summarization: return chunk.slice(0, 2000) + "..."
ChunkFallback_WholeChunk(c, ch) ==
  [kind |-> "prefix", chunk |-> c, len |-> ChunkLen(ch)]
ChunkFallback(c, ch) ==
  [kind |-> "prefix", chunk |-> c, len |-> Min(PrefixLen, ChunkLen(ch)) + EllipsisLen]

\* `=== Part ${idx + 1} ===\n`, for fewer than ten parts
PartHeaderLen == 15
\* "\n\n"
PartSeparatorLen == 2

\* summaries.map(...).join("\n\n")
CombinedLen(sums) ==
  SumSeq([i \in 1 .. Len(sums) |-> PartHeaderLen + sums[i].len])
  + (IF Len(sums) = 0 THEN 0 ELSE PartSeparatorLen * (Len(sums) - 1))
CombinedSummaries(sums) == Text("combined", CombinedLen(sums), sums)

\* catch of the final merge: combinedSummaries.slice(0, MAX_LENGTH)
MergeFallback(combined) ==
  [text |-> Text("combinedPrefix", Min(combined.len, MAX_LENGTH), combined.parts),
   available |-> TRUE]

\* the outer catch, and the loader's empty answer
Unavailable == [text |-> EmptyText, available |-> FALSE]

\* chunks.slice(i, i + CONCURRENT_CHUNKS), as chunk numbers (from 1)
ChunkBatch(i, n) == {c \in 1 .. n : i < c /\ c <= i + CONCURRENT_CHUNKS}

\* The numbers of the chunks of the longest transcript.
ChunkNumbers == 1 .. (MaxTranscript \div (CHUNK_SIZE - CHUNK_OVERLAP) + 1)

TranscriptInit ==
  /\ PoolUnused
  /\ GraphUnused
  /\ WfUnused
  /\ ValUnused
  /\ StreamUnused
  /\ JobUnused
  /\ PureUnused
  /\ KeyUnused
  /\ FetchUnused
  /\ VideoJobsUnused
  /\ LimiterUnused
  /\ tpc = "load"
  /\ transcriptLen = 0
  /\ startIndex = 0
  /\ chunks = <<>>
  /\ chunkResults = <<>>
  /\ batchI = 0
  /\ summaries = <<>>
  /\ transcriptOut = NoTranscriptOut
  /\ tHist = NoTranscriptHist

notTranscript == <<poolVars, graphVars, wfVars, valVars, streamVars, jobVars, pureVars,
                   keyVars, fetchVars, videoJobVars, limiterVars>>

\* return {text, available}
TranscriptReturns(out) ==
  /\ tpc' = "returned"
  /\ transcriptOut' = out

\* loader.load() resolved with the items of a transcript of n characters: a
\* transcript within the limit is returned as it is, a longer one is chunked.
LoaderAnswers(n) ==
  /\ tpc = "load"
  /\ transcriptLen' = n
  /\ tHist' = [tHist EXCEPT !.load = "loaded"]
  /\ IF n <= MAX_LENGTH
     THEN TranscriptReturns([text |-> Text("full", n, <<>>), available |-> TRUE])
     ELSE tpc' = "chunking" /\ UNCHANGED transcriptOut
  /\ UNCHANGED <<startIndex, chunks, chunkResults, batchI, summaries>>
  /\ UNCHANGED notTranscript

\* loader.load() resolved with no item.
LoaderAnswersNothing ==
  /\ tpc = "load"
  /\ tHist' = [tHist EXCEPT !.load = "nothing"]
  /\ TranscriptReturns(Unavailable)
  /\ UNCHANGED <<transcriptLen, startIndex, chunks, chunkResults, batchI, summaries>>
  /\ UNCHANGED notTranscript

\* loader.load() rejected: the outer catch.
LoaderFails ==
  /\ tpc = "load"
  /\ tHist' = [tHist EXCEPT !.load = "failed"]
  /\ TranscriptReturns(Unavailable)
  /\ UNCHANGED <<transcriptLen, startIndex, chunks, chunkResults, batchI, summaries>>
  /\ UNCHANGED notTranscript

\* The first statements of an iteration of the summaries loop over chs: the
\* calls of the batch at i are made, and Promise.all is awaited.
BatchStarts(i, chs) ==
  /\ batchI' = i
  /\ chunkResults' = [c \in 1 .. Len(chs) |->
                        IF c \in ChunkBatch(i, Len(chs)) THEN PendingCall(c)
                        ELSE NoChunkResult(c)]
  /\ tpc' = "awaitBatch"

\* One iteration of the chunking loop; on its exit the summaries loop begins.
ChunkingStep ==
  /\ tpc = "chunking"
  /\ IF startIndex < transcriptLen
     THEN LET endIndex == Min(startIndex + CHUNK_SIZE, transcriptLen)
              pushed == Append(chunks, [start |-> startIndex, end |-> endIndex])
          IN /\ chunks' = pushed
             /\ startIndex' = NextStart(startIndex)
             /\ IF endIndex = transcriptLen
                THEN BatchStarts(0, pushed)
                ELSE UNCHANGED <<tpc, chunkResults, batchI>>
     ELSE /\ UNCHANGED <<chunks, startIndex>>
          /\ BatchStarts(0, chunks)
  /\ UNCHANGED <<transcriptLen, summaries, transcriptOut, tHist>>
  /\ UNCHANGED notTranscript

\* model.invoke of chunk c resolved: its async function returns the summary.
ChunkSummaryAnswers(c, len) ==
  /\ tpc = "awaitBatch"
  /\ c \in DOMAIN chunkResults
  /\ chunkResults[c].kind = "pending"
  /\ chunkResults' = [chunkResults EXCEPT ![c] = EnrichedSummary(c, len)]
  /\ UNCHANGED <<tpc, transcriptLen, startIndex, chunks, batchI, summaries,
                 transcriptOut, tHist>>
  /\ UNCHANGED notTranscript

\* model.invoke of chunk c rejected: its async function returns the fallback.
ChunkSummaryFails(c) ==
  /\ tpc = "awaitBatch"
  /\ c \in DOMAIN chunkResults
  /\ chunkResults[c].kind = "pending"
  /\ chunkResults' = [chunkResults EXCEPT ![c] = ChunkFallback(c, chunks[c])]
  /\ tHist' = [tHist EXCEPT !.chunkFailed = @ \cup {c}]
  /\ UNCHANGED <<tpc, transcriptLen, startIndex, chunks, batchI, summaries,
                 transcriptOut>>
  /\ UNCHANGED notTranscript

\* Promise.all resolved: push the batch's results; then the next batch, or the
\* merge: the combined summaries are returned if short enough, else the final
\* model.invoke is awaited.
BatchSettles ==
  /\ tpc = "awaitBatch"
  /\ \A c \in ChunkBatch(batchI, Len(chunks)) : chunkResults[c].kind # "pending"
  /\ LET pushed == summaries
                     \o [k \in 1 .. Cardinality(ChunkBatch(batchI, Len(chunks))) |->
                           chunkResults[batchI + k]]
         i == batchI + CONCURRENT_CHUNKS
     IN /\ summaries' = pushed
        /\ IF i < Len(chunks)
           THEN BatchStarts(i, chunks) /\ UNCHANGED transcriptOut
           ELSE /\ UNCHANGED <<batchI, chunkResults>>
                /\ IF CombinedLen(pushed) <= MAX_LENGTH
                   THEN TranscriptReturns([text |-> CombinedSummaries(pushed),
                                           available |-> TRUE])
                   ELSE tpc' = "awaitMerge" /\ UNCHANGED transcriptOut
  /\ UNCHANGED <<transcriptLen, startIndex, chunks, tHist>>
  /\ UNCHANGED notTranscript

\* The final model.invoke resolved.
MergeAnswers(len) ==
  /\ tpc = "awaitMerge"
  /\ TranscriptReturns([text |-> Text("merged", len, <<>>), available |-> TRUE])
  /\ UNCHANGED <<transcriptLen, startIndex, chunks, chunkResults, batchI, summaries,
                 tHist>>
  /\ UNCHANGED notTranscript

\* The final model.invoke rejected.
MergeFails ==
  /\ tpc = "awaitMerge"
  /\ tHist' = [tHist EXCEPT !.mergeFailed = TRUE]
  /\ TranscriptReturns(MergeFallback(CombinedSummaries(summaries)))
  /\ UNCHANGED <<transcriptLen, startIndex, chunks, chunkResults, batchI, summaries>>
  /\ UNCHANGED notTranscript

TranscriptNext ==
  \/ \E n \in TranscriptLens : LoaderAnswers(n)
  \/ LoaderAnswersNothing
  \/ LoaderFails
  \/ ChunkingStep
  \/ \E c \in ChunkNumbers : \E len \in SummaryLens : ChunkSummaryAnswers(c, len)
  \/ \E c \in ChunkNumbers : ChunkSummaryFails(c)
  \/ BatchSettles
  \/ \E len \in MergedLens : MergeAnswers(len)
  \/ MergeFails

TranscriptSpec == TranscriptInit /\ [][TranscriptNext]_vars

\* Every awaited call settles, and the synchronous chunking loop runs on.
FairTranscriptSpec == TranscriptSpec /\ WF_vars(TranscriptNext)

(***************************************************************************)
(* Video jobs running side by side (the queue worker takes up to           *)
(* WorkerConcurrency jobs at once), each calling processWithWorkerPool.    *)
(* jobQueue, allResults, completedBatches and failedBatches are locals of  *)
(* processWithWorkerPool: every call has its own, and the workers it       *)
(* creates close over them.                                                *)
(***************************************************************************)
WorkerConcurrency == 3

VideoJobs == 1 .. MaxVideoJobs
PoolWorkerIds == 0 .. (MaxPoolWorkers - 1)

\* The batches a video's comments are cut into, by length.
VideoBatchLens == {<<SplitMinLen + 1>>, <<SplitMinLen, SplitMinLen + 1>>}

NoVideoBatch == [video |-> 0, first |-> 0, last |-> 0, batchNumber |-> 0, retryCount |-> 0]

\* The BatchJobs of video v: its comments are its own.
OfVideo(v, q) ==
  [i \in DOMAIN q |-> [video |-> v, first |-> q[i].first, last |-> q[i].last,
                       batchNumber |-> q[i].batchNumber, retryCount |-> q[i].retryCount]]

\* The labels of a batch name the comments they were made from.
LabelsOf(job) == [video |-> job.video, first |-> job.first, last |-> job.last]

\* The locals a worker of call v refers to: those of the call that created it.
ClosureOf_FirstCall(v) == 1
ClosureOf(v) == v

NewPool(q) == [jobQueue |-> q, allResults |-> {}, completedBatches |-> 0,
               failedBatches |-> 0]
NoPool == NewPool(<<>>)

Awaiting(job) == [pc |-> "await", job |-> job]
Exited == [pc |-> "exited", job |-> NoVideoBatch]

\* while (jobQueue.length > 0) { const job = jobQueue.shift(); ... await
TakeNext(q) == IF Len(q) > 0 THEN Awaiting(Head(q)) ELSE Exited
Shifted(q) == IF Len(q) > 0 THEN Tail(q) ELSE q

VideoJobsInit ==
  /\ PoolUnused
  /\ GraphUnused
  /\ WfUnused
  /\ ValUnused
  /\ StreamUnused
  /\ JobUnused
  /\ PureUnused
  /\ KeyUnused
  /\ FetchUnused
  /\ TranscriptUnused
  /\ LimiterUnused
  /\ videoPc = [v \in VideoJobs |-> "queued"]
  /\ pools = [v \in VideoJobs |-> NoPool]
  /\ poolWorkers = [v \in VideoJobs |-> [w \in PoolWorkerIds |-> Exited]]
  /\ videoResult = [v \in VideoJobs |-> {}]

notVideoJobs == <<poolVars, graphVars, wfVars, valVars, streamVars, jobVars, pureVars,
                  keyVars, fetchVars, transcriptVars, limiterVars>>

\* The queue worker takes video job v and its pipeline reaches
\* processWithWorkerPool: the locals are created and worker 0, 1, ... each
\* shift a job and await its classification, or exit on the empty queue.
PoolCalled(v, lens) ==
  /\ videoPc[v] = "queued"
  /\ Cardinality({u \in VideoJobs : videoPc[u] = "running"}) < WorkerConcurrency
  /\ videoPc' = [videoPc EXCEPT ![v] = "running"]
  /\ LET q == OfVideo(v, NumberJobs(InitialQueue(lens, 1)))
     IN /\ pools' = [pools EXCEPT ![ClosureOf(v)] =
                       NewPool(SubSeq(q, MaxPoolWorkers + 1, Len(q)))]
        /\ poolWorkers' = [poolWorkers EXCEPT ![v] =
                             [w \in PoolWorkerIds |->
                                IF w + 1 <= Len(q) THEN Awaiting(q[w + 1]) ELSE Exited]]
  /\ UNCHANGED videoResult
  /\ UNCHANGED notVideoJobs

\* processSingleBatch of worker w of call v resolved.
VideoBatchSucceeds(v, w) ==
  /\ videoPc[v] = "running"
  /\ poolWorkers[v][w].pc = "await"
  /\ LET p == pools[ClosureOf(v)]
     IN /\ pools' = [pools EXCEPT ![ClosureOf(v)] =
                       [jobQueue |-> Shifted(p.jobQueue),
                        allResults |-> p.allResults \cup {LabelsOf(poolWorkers[v][w].job)},
                        completedBatches |-> p.completedBatches + 1,
                        failedBatches |-> p.failedBatches]]
        /\ poolWorkers' = [poolWorkers EXCEPT ![v][w] = TakeNext(p.jobQueue)]
  /\ UNCHANGED <<videoPc, videoResult>>
  /\ UNCHANGED notVideoJobs

\* processSingleBatch of worker w of call v rejected: the catch branch.
VideoBatchFails(v, w) ==
  /\ videoPc[v] = "running"
  /\ poolWorkers[v][w].pc = "await"
  /\ LET p == pools[ClosureOf(v)]
         job == poolWorkers[v][w].job
         q == QueueAfterFailure(job, p.jobQueue)
     IN /\ pools' = [pools EXCEPT ![ClosureOf(v)] =
                       [jobQueue |-> Shifted(q),
                        allResults |-> p.allResults,
                        completedBatches |-> p.completedBatches,
                        failedBatches |-> IF ShouldSplit(job) THEN p.failedBatches
                                          ELSE p.failedBatches + 1]]
        /\ poolWorkers' = [poolWorkers EXCEPT ![v][w] = TakeNext(q)]
  /\ UNCHANGED <<videoPc, videoResult>>
  /\ UNCHANGED notVideoJobs

\* await Promise.all(workers) of call v resolved: return allResults.
VideoPoolReturns(v) ==
  /\ videoPc[v] = "running"
  /\ \A w \in PoolWorkerIds : poolWorkers[v][w].pc = "exited"
  /\ videoPc' = [videoPc EXCEPT ![v] = "returned"]
  /\ videoResult' = [videoResult EXCEPT ![v] = pools[ClosureOf(v)].allResults]
  /\ UNCHANGED <<pools, poolWorkers>>
  /\ UNCHANGED notVideoJobs

VideoJobsNext ==
  \/ \E v \in VideoJobs : \E lens \in VideoBatchLens : PoolCalled(v, lens)
  \/ \E v \in VideoJobs : \E w \in PoolWorkerIds : VideoBatchSucceeds(v, w)
  \/ \E v \in VideoJobs : \E w \in PoolWorkerIds : VideoBatchFails(v, w)
  \/ \E v \in VideoJobs : VideoPoolReturns(v)

VideoJobsSpec == VideoJobsInit /\ [][VideoJobsNext]_vars

(***************************************************************************)
(* featureRateLimiter (src/src/middleware/rate-limiter.middleware.ts), for *)
(* the requests of one user to one feature.  Redis serves one command at a *)
(* time; the handler is suspended at each await of a Redis call.           *)
(***************************************************************************)
maxRequests == 2

Clients == 1 .. MaxClients

NotArrived == [pc |-> "idle", newCount |-> 0]
At(pc, n) == [pc |-> pc, newCount |-> n]

\* if (currentCount >= config.maxRequests)
LimitExceeded(currentCount) == currentCount >= maxRequests

LimiterInit ==
  /\ PoolUnused
  /\ GraphUnused
  /\ WfUnused
  /\ ValUnused
  /\ StreamUnused
  /\ JobUnused
  /\ PureUnused
  /\ KeyUnused
  /\ FetchUnused
  /\ TranscriptUnused
  /\ VideoJobsUnused
  /\ rlCount = 0
  /\ rlExpires = FALSE
  /\ rlReq = [r \in Clients |-> NotArrived]
  /\ rlIncrements = {}
  /\ rlErrors = FALSE

notLimiter == <<poolVars, graphVars, wfVars, valVars, streamVars, jobVars, pureVars,
                keyVars, fetchVars, transcriptVars, videoJobVars>>

\* The middleware is called for request r: up to await redisClient.get(key).
RequestArrives(r) ==
  /\ rlReq[r].pc = "idle"
  /\ rlReq' = [rlReq EXCEPT ![r] = At("get", 0)]
  /\ UNCHANGED <<rlCount, rlExpires, rlIncrements, rlErrors>>
  /\ UNCHANGED notLimiter

\* GET answered: at the limit await redisClient.ttl(key) for the 429, else
\* await redisClient.incr(key).
GetReplies(r) ==
  /\ rlReq[r].pc = "get"
  /\ rlReq' = [rlReq EXCEPT ![r] =
                 IF LimitExceeded(rlCount) THEN At("ttl429", 0) ELSE At("incr", 0)]
  /\ UNCHANGED <<rlCount, rlExpires, rlIncrements, rlErrors>>
  /\ UNCHANGED notLimiter

\* TTL answered at the limit: res.status(429).json(...)
TtlRepliesAtLimit(r) ==
  /\ rlReq[r].pc = "ttl429"
  /\ rlReq' = [rlReq EXCEPT ![r] = At("rejected", 0)]
  /\ UNCHANGED <<rlCount, rlExpires, rlIncrements, rlErrors>>
  /\ UNCHANGED notLimiter

\* INCR answered: on the first request await redisClient.expire, else
\* await redisClient.ttl.
IncrReplies(r) ==
  /\ rlReq[r].pc = "incr"
  /\ rlCount' = rlCount + 1
  /\ rlIncrements' = rlIncrements \cup {r}
  /\ rlReq' = [rlReq EXCEPT ![r] =
                 IF rlCount + 1 = 1 THEN At("expire", rlCount + 1)
                 ELSE At("ttl", rlCount + 1)]
  /\ UNCHANGED <<rlExpires, rlErrors>>
  /\ UNCHANGED notLimiter

\* EXPIRE answered: await redisClient.ttl.
ExpireReplies(r) ==
  /\ rlReq[r].pc = "expire"
  /\ rlExpires' = (rlCount > 0)
  /\ rlReq' = [rlReq EXCEPT ![r] = At("ttl", rlReq[r].newCount)]
  /\ UNCHANGED <<rlCount, rlIncrements, rlErrors>>
  /\ UNCHANGED notLimiter

\* TTL answered: the headers are set and next() is called.
TtlReplies(r) ==
  /\ rlReq[r].pc = "ttl"
  /\ rlReq' = [rlReq EXCEPT ![r] = At("admitted", rlReq[r].newCount)]
  /\ UNCHANGED <<rlCount, rlExpires, rlIncrements, rlErrors>>
  /\ UNCHANGED notLimiter

\* A Redis call rejected: the catch calls next().
RedisCallFails(r) ==
  /\ rlReq[r].pc \in {"get", "ttl429", "incr", "expire", "ttl"}
  /\ rlReq' = [rlReq EXCEPT ![r] = At("admitted", rlReq[r].newCount)]
  /\ rlErrors' = TRUE
  /\ UNCHANGED <<rlCount, rlExpires, rlIncrements>>
  /\ UNCHANGED notLimiter

\* The window ended: Redis deletes the key.
KeyExpires ==
  /\ rlExpires
  /\ rlCount' = 0
  /\ rlExpires' = FALSE
  /\ rlIncrements' = {}
  /\ UNCHANGED <<rlReq, rlErrors>>
  /\ UNCHANGED notLimiter

LimiterNext ==
  \/ \E r \in Clients : RequestArrives(r)
  \/ \E r \in Clients : GetReplies(r)
  \/ \E r \in Clients : TtlRepliesAtLimit(r)
  \/ \E r \in Clients : IncrReplies(r)
  \/ \E r \in Clients : ExpireReplies(r)
  \/ \E r \in Clients : TtlReplies(r)
  \/ \E r \in Clients : RedisCallFails(r)
  \/ KeyExpires

LimiterSpec == LimiterInit /\ [][LimiterNext]_vars

\* C39: as long as no Redis call rejected, at most maxRequests requests of
\* the user pass the limiter's check and increment the counter within one
\* window (the life of the key), however the requests' GET and INCR steps
\* interleave; and a request that found the counter at the limit is on its way
\* to the 429 answer and has not incremented the counter.
C39_AtMostMaxPerWindow ==
  (rlReq # <<>> /\ ~rlErrors) =>
    /\ Cardinality(rlIncrements) <= maxRequests
    /\ rlCount <= maxRequests
    /\ \A r \in Clients :
         rlReq[r].pc \in {"ttl429", "rejected"} =>
           /\ r \notin rlIncrements
           /\ rlReq[r].newCount = 0

(***************************************************************************)
(* Claims about the agents of the validation graph.                        *)
(***************************************************************************)
CapOf(n) == IF n = "strategy_agent" THEN 6 ELSE 5

\* C31: each agent's tool loop terminates.  The model.invoke in flight is
\* number loopI + 1 of the loop, so at most 5 are made (6 by the strategy
\* agent); a response without tool calls goes straight to the synthesis
\* call; the synthesis call is entered from the loop only, by that break or
\* by the cap, and nothing but the agent's return (or its rejection) follows
\* it, so an agent that writes its output made exactly one synthesis call;
\* and, every call answering, once the service has invoked the graph every
\* agent returns or throws, unless the run is aborted before.
C31_ToolLoopTerminates ==
  /\ [](svc # "unused" =>
          \A n \in AgentNodes :
            /\ loopI[n] <= CapOf(n)
            /\ apc[n] \in {"llm", "tool"} => loopI[n] < CapOf(n))
  /\ [][svc # "unused" =>
          \A n \in AgentNodes :
            /\ (apc[n] = "llm" /\ apc'[n] = "tool") =>
                 (loopI'[n] = loopI[n] /\ toolsLeft'[n] > 0)
            /\ (apc[n] = "tool" /\ apc'[n] = "llm") => loopI'[n] = loopI[n] + 1
            /\ (apc[n] = "llm" /\ apc'[n] # "llm" /\ toolsLeft'[n] = 0
                 /\ task'[n] = "await") => apc'[n] = "synth"
            /\ (apc[n] # "synth" /\ apc'[n] = "synth") =>
                 \/ apc[n] = "llm" /\ toolsLeft'[n] = 0
                 \/ apc[n] = "tool" /\ loopI'[n] = CapOf(n)
            /\ (apc[n] = "synth" /\ apc'[n] # "synth") => task'[n] \in {"finished", "threw"}
            /\ (task[n] # "finished" /\ task'[n] = "finished") => apc[n] = "synth"]_vars
  /\ (svc = "running") ~>
       (gphase # "running" \/ \A n \in AgentNodes : task[n] \notin {"ready", "await"})

\* C31 witness: the strategy agent awaits its synthesis call after six
\* model.invoke calls that all asked for a tool.
C31_Witness ==
  /\ svc = "running"
  /\ task["strategy_agent"] = "await"
  /\ apc["strategy_agent"] = "synth"
  /\ loopI["strategy_agent"] = 6

NamesIn(u) == IF u.kind = "string" THEN {u.value} ELSE u.value

\* C32: the agentsCompleted reducer is a set union: after any sequence of
\* updates the channel holds exactly the names those updates carried, so the
\* order of the updates and an update applied twice make no difference; the
\* set never loses a name; and once the four agents' names were applied it
\* is {competition, audience, trend, strategy}.
C32_ReducerIsSetUnion ==
  /\ [](pureFn = "reduce" =>
          pureOut.agentsCompleted = UNION {NamesIn(pureArg[i]) : i \in 1 .. pureStep})
  /\ [][pureFn = "reduce" => pureOut.agentsCompleted \subseteq pureOut'.agentsCompleted]_vars

\* C32 witness: five updates were applied, the four names (strategy before
\* competition) and one of them twice, and the set holds the four names.
C32_Witness ==
  /\ pureFn = "reduce"
  /\ pureStep >= 5
  /\ pureArg[1] = [kind |-> "string", value |-> "strategy"]
  /\ pureArg[2] = [kind |-> "string", value |-> "strategy"]
  /\ pureArg[5] = [kind |-> "string", value |-> "competition"]
  /\ pureOut.agentsCompleted = {"competition", "audience", "trend", "strategy"}

(***************************************************************************)
(* Claims about the channels of the two graphs.                            *)
(***************************************************************************)
OwnField ==
  [analyze_emotions |-> "emotions", analyze_patterns |-> "patterns",
   analyze_loved |-> "thingsLoved", analyze_improvements |-> "improvements",
   analyze_wantMore |-> "wantMore"]

\* C33: each of the five insight stages is called at most once per job and
\* returns an update of its own result field only; when the runtime applies
\* the five updates, classifiedComments, the three sentiment subsets, summary
\* and totalProcessed are unchanged and every result field holds what its own
\* stage returned, whatever the order in which the stages ran and returned.
C33_InsightStagesWriteOwnField ==
  /\ [](gphase # "unused" /\ svc = "unused" =>
          \A n \in DOMAIN OwnField :
            /\ started[n] <= 1 /\ finished[n] <= 1
            /\ DOMAIN pending[n] \subseteq {OwnField[n]})
  /\ [][(gphase # "unused" /\ svc = "unused"
          /\ \E n \in DOMAIN OwnField : task[n] = "finished" /\ task'[n] = "idle"
          /\ gphase' = "running") =>
          /\ \A f \in {"classifiedComments", "positiveComments", "negativeComments",
                        "neutralComments", "summary", "totalProcessed"} :
               astate'[f] = astate[f]
          /\ \A n \in DOMAIN OwnField :
               /\ DOMAIN pending[n] = {OwnField[n]}
               /\ astate'[OwnField[n]] = pending[n][OwnField[n]]]_vars

\* C33 witness: the five stages returned, some with the LLM's answer and some
\* with their default after a failed call, and the run completed.
C33_Witness ==
  /\ gphase = "done"
  /\ svc = "unused"
  /\ \A n \in DOMAIN OwnField : finished[n] = 1
  /\ llmFailed # {}
  /\ astate.emotions = "llm"
  /\ astate.thingsLoved = "[]"
  /\ astate.patterns # astate.wantMore

OwnSlot ==
  [competition_agent |-> "competitionAnalysis", audience_agent |-> "audienceAnalysis",
   trend_agent |-> "trendAnalysis", strategy_agent |-> "strategyAnalysis"]

OwnName ==
  [competition_agent |-> "competition", audience_agent |-> "audience",
   trend_agent |-> "trend", strategy_agent |-> "strategy"]

\* C34: in a validation run each agent is called at most once and returns an
\* update of its own slot and of agentsCompleted with its own name only; the
\* barrier returns nothing and the supervisor returns finalOutput only, at
\* most once. When the runtime applies updates, idea, targetAudience and goal
\* keep the values of the invocation, a slot changes only from null to what
\* its owner returned, agentsCompleted grows by the names of the agents that
\* returned, and finalOutput changes only from null to what the supervisor
\* returned. A run that returned wrote each slot and finalOutput exactly once.
C34_SlotsWrittenOnceByOwner ==
  /\ [](svc \notin {"unused", "idle"} =>
          /\ \A n \in AgentNodes :
               /\ started[n] <= 1 /\ finished[n] <= 1
               /\ \/ DOMAIN pending[n] = {}
                  \/ /\ DOMAIN pending[n] = {OwnSlot[n], "agentsCompleted"}
                     /\ pending[n][OwnSlot[n]] # Null
                     /\ pending[n].agentsCompleted = AsString(OwnName[n])
          /\ DOMAIN pending["barrier"] = {}
          /\ started["supervisor"] <= 1 /\ finished["supervisor"] <= 1
          /\ DOMAIN pending["supervisor"] \subseteq {"finalOutput"}
          /\ vstate.idea = "idea" /\ vstate.targetAudience = "audience"
          /\ vstate.goal = "goal"
          /\ (svc = "returned" =>
                /\ \A n \in AgentNodes : finished[n] = 1 /\ vstate[OwnSlot[n]] # Null
                /\ finished["supervisor"] = 1 /\ vstate.finalOutput # Null))
  /\ [][svc \notin {"unused", "idle"} =>
          /\ \A n \in AgentNodes :
               /\ vstate[OwnSlot[n]] # Null => vstate'[OwnSlot[n]] = vstate[OwnSlot[n]]
               /\ vstate'[OwnSlot[n]] # vstate[OwnSlot[n]] =>
                    /\ task[n] = "finished"
                    /\ vstate'[OwnSlot[n]] = pending[n][OwnSlot[n]]
          /\ vstate'.agentsCompleted =
               vstate.agentsCompleted
               \cup {OwnName[n] : n \in {x \in AgentNodes :
                                           /\ task[x] = "finished"
                                           /\ task'[x] # "finished"}}
          /\ vstate.finalOutput # Null => vstate'.finalOutput = vstate.finalOutput
          /\ vstate'.finalOutput # vstate.finalOutput =>
               /\ task["supervisor"] = "finished"
               /\ vstate'.finalOutput = pending["supervisor"].finalOutput]_vars

\* C34 witness: the run returned, the four slots and finalOutput hold what
\* their owners returned and the four names are in agentsCompleted.
C34_Witness ==
  /\ svc = "returned"
  /\ \A n \in AgentNodes : vstate[OwnSlot[n]] = "analysis" /\ finished[n] = 1
  /\ vstate.agentsCompleted = {"competition", "audience", "trend", "strategy"}
  /\ vstate.finalOutput = "final"
  /\ vstate.idea = "idea"

(***************************************************************************)
(* Claims about fetchTranscript.                                           *)
(***************************************************************************)
\* C35: fetchTranscript only ever resolves.  When the loader rejected or gave
\* no item it resolves to {text: "", available: false}.  A chunk whose
\* summarization call rejected is represented in the summaries by the first
\* 2000 characters of itself (the whole chunk if shorter) and an ellipsis; when
\* the final merge call rejected the result is the combined summaries cut to
\* 15000 characters.  Whenever the loader gave a transcript the result has
\* available = true, after either fallback as well.
C35_TranscriptFallbacks ==
  /\ tpc \in {"unused", "load", "chunking", "awaitBatch", "awaitMerge", "returned"}
  /\ tpc = "returned" <=> transcriptOut # NoTranscriptOut
  /\ (tpc = "returned" /\ tHist.load \in {"failed", "nothing"}) =>
       transcriptOut = [text |-> Text("empty", 0, <<>>), available |-> FALSE]
  /\ (tpc = "returned" /\ tHist.load = "loaded") => transcriptOut.available
  /\ \A c \in tHist.chunkFailed :
       LET prefix == [kind |-> "prefix", chunk |-> c,
                      len |-> 3 + (IF chunks[c].end - chunks[c].start < 2000
                                   THEN chunks[c].end - chunks[c].start
                                   ELSE 2000)]
       IN /\ (batchI < c /\ c <= batchI + 3) => chunkResults[c] = prefix
          /\ c <= Len(summaries) => summaries[c] = prefix
          /\ (batchI < c /\ c <= batchI + 3) \/ c <= Len(summaries)
  /\ (tpc = "returned" /\ tHist.mergeFailed) =>
       /\ transcriptOut.available
       /\ transcriptOut.text.kind = "combinedPrefix"
       /\ transcriptOut.text.parts = summaries
       /\ transcriptOut.text.len = 15000
  /\ (tpc = "returned" /\ tHist.chunkFailed # {} /\ ~tHist.mergeFailed) =>
       /\ transcriptOut.available
       /\ transcriptOut.text.kind \in {"combined", "merged"}
       /\ transcriptOut.text.kind = "combined" => transcriptOut.text.parts = summaries

\* C35 witness: a chunk's call and the merge call both rejected, and the
\* result is the cut combined summaries, one part of which is a chunk's prefix.
C35_Witness ==
  /\ tpc = "returned"
  /\ tHist.chunkFailed # {}
  /\ tHist.mergeFailed
  /\ transcriptOut.available
  /\ \E i \in 1 .. Len(transcriptOut.text.parts) :
       transcriptOut.text.parts[i].kind = "prefix"

\* C40: for a transcript of more than 15000 characters the chunking loop
\* ends; the first chunk starts at 0, each chunk has between 1 and 10000
\* characters, consecutive chunks start 9000 characters apart, only the last
\* chunk ends at the transcript's end, and once the loop has ended the last one
\* does.  At most 3 summarization calls are in flight, the summaries are in
\* chunk order, and the combined text is made of the summaries in that order.
C40_ChunksCoverTranscript ==
  /\ [](tpc \notin {"unused", "load"} /\ transcriptLen > 15000 =>
          /\ \A c \in 1 .. Len(chunks) :
               /\ chunks[c].start = 9000 * (c - 1)
               /\ chunks[c].end - chunks[c].start \in 1 .. 10000
               /\ chunks[c].end <= transcriptLen
               /\ c < Len(chunks) => /\ chunks[c].end < transcriptLen
                                     /\ chunks[c + 1].start < chunks[c].end
          /\ tpc # "chunking" =>
               /\ Len(chunks) >= 2
               /\ chunks[Len(chunks)].end = transcriptLen
               /\ Len(chunkResults) = Len(chunks)
          /\ Cardinality({c \in DOMAIN chunkResults :
                            chunkResults[c].kind = "pending"}) <= 3
          /\ Len(summaries) <= Len(chunks)
          /\ \A i \in 1 .. Len(summaries) : summaries[i].chunk = i
          /\ (tpc \in {"awaitMerge", "returned"}) => Len(summaries) = Len(chunks)
          /\ (tpc = "returned" /\ transcriptOut.text.kind \in {"combined", "combinedPrefix"}) =>
               transcriptOut.text.parts = summaries)
  /\ (tpc = "chunking") ~> (tpc = "awaitBatch")
  /\ (tpc = "chunking") ~> (tpc = "returned")

\* C40 witness: a transcript of four chunks, summarized in two batches, the
\* first with three calls in flight; the summaries came back out of order.
C40_Witness ==
  /\ tpc = "awaitBatch"
  /\ Len(chunks) = 4
  /\ batchI = 0
  /\ chunkResults[1].kind = "pending"
  /\ chunkResults[2].kind = "pending"
  /\ chunkResults[3].kind = "summary"
  /\ chunks[4].end = transcriptLen

(***************************************************************************)
(* Claims about video jobs running side by side.                           *)
(***************************************************************************)
\* C36: with several video jobs in their pipelines at once, the queue of a
\* call of processWithWorkerPool holds batches of its own video only, its
\* workers are handed batches of that video only, its result list holds labels
\* made from that video's batches only and its counters count its own batches;
\* what the call returns is that list.  The locals of a call change only in
\* steps of that call and of its own workers.
C36_PoolStateIsPerJob ==
  /\ [](videoPc # <<>> =>
          \A v \in VideoJobs :
            /\ \A i \in 1 .. Len(pools[v].jobQueue) : pools[v].jobQueue[i].video = v
            /\ \A w \in PoolWorkerIds :
                 poolWorkers[v][w].pc = "await" => poolWorkers[v][w].job.video = v
            /\ \A l \in pools[v].allResults \cup videoResult[v] : l.video = v
            /\ pools[v].completedBatches = Cardinality(pools[v].allResults)
            /\ videoPc[v] = "queued" => pools[v] = [jobQueue |-> <<>>, allResults |-> {},
                                                   completedBatches |-> 0,
                                                   failedBatches |-> 0]
            /\ videoPc[v] = "returned" =>
                 /\ videoResult[v] = pools[v].allResults
                 /\ pools[v].jobQueue = <<>>)
  /\ [][videoPc # <<>> =>
          \A v \in VideoJobs :
            pools'[v] # pools[v] =>
              /\ poolWorkers'[v] # poolWorkers[v]
              /\ \A u \in VideoJobs \ {v} : poolWorkers'[u] = poolWorkers[u]]_vars

\* C36 witness: two jobs are in their worker pools at once, each with batches
\* being classified; the first has labels already and both halves of a split
\* batch in flight, the second has no labels yet and a batch in its queue.
C36_Witness ==
  /\ videoPc # <<>>
  /\ videoPc[1] = "running" /\ videoPc[2] = "running"
  /\ \A w \in {0, 1} : /\ poolWorkers[1][w].pc = "await"
                        /\ poolWorkers[1][w].job.retryCount = 1
  /\ poolWorkers[2][0].pc = "await"
  /\ pools[1].allResults # {}
  /\ pools[2].allResults = {}
  /\ Len(pools[2].jobQueue) > 0

(***************************************************************************)
(* Further claims about the worker pool.                                   *)
(***************************************************************************)

\* The comments the pool was given, and the jobs that hold comment c.
InputComments ==
  UNION {j.first .. j.last : j \in {x \in EverQueued : x.retryCount = 0}}
Holds(j, c) == j.first <= c /\ c <= j.last
QueuedWith(c) == {i \in DOMAIN jobQueue : Holds(jobQueue[i], c)}
InFlightWith(c) == {w \in Workers : wpc[w] = "await" /\ Holds(inFlight[w], c)}
SucceededWith(c) == {j \in succeededJobs : Holds(j, c)}
FailedWith(c) == {j \in failedJobs : Holds(j, c)}

\* C37: in every state of the pool each input comment is in exactly one of: a
\* queued job, a job in flight, a batch that was classified, a batch that was
\* given up; and a step that puts new jobs in the queue puts exactly two, made
\* from a job whose classification failed: the first holds the leading
\* comments of that job and is ahead of the second, which holds the others.
C37_SplitConservesComments ==
  /\ [](phase \in {"pool", "returned"} =>
          \A c \in InputComments :
            Cardinality(QueuedWith(c)) + Cardinality(InFlightWith(c))
            + Cardinality(SucceededWith(c)) + Cardinality(FailedWith(c)) = 1)
  /\ [][(phase = "pool" /\ DOMAIN claimCount' # DOMAIN claimCount) =>
          \E w \in Workers :
            /\ wpc[w] = "await"
            /\ \E h1, h2 \in DOMAIN claimCount' \ DOMAIN claimCount :
                 /\ DOMAIN claimCount' \ DOMAIN claimCount = {h1, h2}
                 /\ h1.first = inFlight[w].first
                 /\ h1.first <= h1.last
                 /\ h2.first = h1.last + 1
                 /\ h2.first <= h2.last
                 /\ h2.last = inFlight[w].last
                 /\ \E i \in DOMAIN jobQueue' :
                      /\ jobQueue'[i] = h2
                      /\ \/ i > 1 /\ jobQueue'[i - 1] = h1
                         \/ i = 1 /\ inFlight'[w] = h1]_vars

\* C37 witness: a batch of 44 comments was split twice; of its quarters one
\* was classified, one was given up, one is in flight and one is queued.
C37_Witness ==
  /\ phase = "pool"
  /\ \E j \in succeededJobs : j.retryCount = 2
  /\ \E j \in failedJobs : j.retryCount = 2
  /\ \E w \in Workers : wpc[w] = "await" /\ inFlight[w].retryCount = 2
  /\ \E i \in DOMAIN jobQueue : jobQueue[i].retryCount = 2

NoSplit == \A j \in EverQueued : j.retryCount = 0

\* C25: for k original batches and w workers (w < k, w = k, w > k), when no
\* batch was split, the pool completes with completedBatches + failedBatches = k.
C25_CountsAddUpWithoutSplit ==
  (phase = "returned" /\ NoSplit) =>
    completedBatches + failedBatches = totalBatches

\* C25 witness: a pool with fewer workers than batches has returned without
\* any split, one batch classified and one permanently failed.
C25_Witness ==
  /\ phase = "returned"
  /\ NoSplit
  /\ numWorkers < totalBatches
  /\ completedBatches >= 1
  /\ failedBatches >= 1

RECURSIVE SumLens(_)
SumLens(S) ==
  IF S = {} THEN 0
  ELSE LET j == CHOOSE x \in S : TRUE IN BatchLen(j) + SumLens(S \ {j})

\* C26: the list processWithWorkerPool returns has exactly as many entries as
\* there are comments in the successfully processed batches, so never more
\* than there are input comments.
C26_OneResultPerComment ==
  phase = "returned" =>
    /\ allResults = SumLens(succeededJobs)
    /\ allResults <= SumLens({j \in EverQueued : j.retryCount = 0})

Spec == PoolSpec
=============================================================================
